---- MODULE Spec2Model ----
(***************************************************************************)
(* Model of the BeeFI streaming capture engine (lib/src/capture.rs): the   *)
(* StreamBee object driven by its owner thread, the capture thread         *)
(* (harvest), the file writer workers and the bounded channels between     *)
(* them, together with the packet dissector outcome (lib/src/pcap.rs,      *)
(* lib/src/extraction.rs, lib/src/bfa_to_bfm.rs) as far as it decides      *)
(* what the capture thread does with a frame.                              *)
(* Beside the engine (Spec, LiveSpec) the module holds a Writer used on    *)
(* its own (WriterSpec, lib/src/persistence), single calls of the          *)
(* library's functions on bounded arguments (LibSpec,                      *)
(* lib/src/extraction.rs, lib/src/he_mimo_ctrl.rs, lib/src/bfa_to_bfm.rs)  *)
(* and the offline pipeline (OfflineSpec, beefi/src/capture.rs).           *)
(***************************************************************************)
EXTENDS Integers, Sequences, FiniteSets, TLC

\* ---------------------------------------------------------------- bounds
\* Number of frames the capture source can deliver in one behaviour.
MaxFrames == 2
\* Number of calls (subscribe_*, start_harvesting, stop) the owner of the
\* StreamBee makes in one behaviour.
MaxCalls == 4
\* Channel capacity; the code uses bounded(100), scaled down here.
CHANNEL_CAP == 1
\* Batch threshold; the code uses 1000, scaled down here.
BATCH_SIZE == 1

\* ------------------------------------------------------- pure functions
RECURSIVE SumSeq(_)
SumSeq(s) == IF s = <<>> THEN 0 ELSE Head(s) + SumSeq(Tail(s))

RECURSIVE Flatten(_)
Flatten(ss) == IF ss = <<>> THEN <<>> ELSE Head(ss) \o Flatten(Tail(ss))

SeqRange(s) == {s[i] : i \in DOMAIN s}

RECURSIVE Pow2(_)
Pow2(n) == IF n = 0 THEN 1 ELSE 2 * Pow2(n - 1)

SeqMax(s) == CHOOSE x \in SeqRange(s) : \A y \in SeqRange(s) : y <= x

\* get_angle_bit_sizes that looks at the lowest bit of codebook_info only.
get_angle_bit_sizes_low_bit(codebook_info, feedback_type) ==
    CASE codebook_info % 2 = 0 /\ feedback_type = 0 -> [tag |-> "Ok", phi_bit |-> 4, psi_bit |-> 2]
      [] codebook_info % 2 = 0 /\ feedback_type = 1 -> [tag |-> "Ok", phi_bit |-> 7, psi_bit |-> 5]
      [] codebook_info % 2 = 1 /\ feedback_type = 0 -> [tag |-> "Ok", phi_bit |-> 6, psi_bit |-> 4]
      [] codebook_info % 2 = 1 /\ feedback_type = 1 -> [tag |-> "Ok", phi_bit |-> 9, psi_bit |-> 7]
      [] OTHER -> [tag |-> "InvalidFeedbackType", fb |-> feedback_type]

\* get_angle_bit_sizes: (codebook_info, feedback_type) -> bit sizes or error
get_angle_bit_sizes(codebook_info, feedback_type) ==
    CASE codebook_info = 0 /\ feedback_type = 0 -> [tag |-> "Ok", phi_bit |-> 4, psi_bit |-> 2]
      [] codebook_info = 0 /\ feedback_type = 1 -> [tag |-> "Ok", phi_bit |-> 7, psi_bit |-> 5]
      [] codebook_info = 1 /\ feedback_type = 0 -> [tag |-> "Ok", phi_bit |-> 6, psi_bit |-> 4]
      [] codebook_info = 1 /\ feedback_type = 1 -> [tag |-> "Ok", phi_bit |-> 9, psi_bit |-> 7]
      [] OTHER -> [tag |-> "InvalidFeedbackType", fb |-> feedback_type]

\* The six angle patterns, entries <<kind, i, j>>.
ANGLE_PATTERNS ==
    << << <<"Phi",1,1>>, <<"Psi",2,1>> >>,
       << <<"Phi",1,1>>, <<"Phi",2,1>>, <<"Psi",2,1>>, <<"Psi",3,1>> >>,
       << <<"Phi",1,1>>, <<"Phi",2,1>>, <<"Psi",2,1>>, <<"Psi",3,1>>, <<"Phi",2,2>>, <<"Psi",3,2>> >>,
       << <<"Phi",1,1>>, <<"Phi",2,1>>, <<"Phi",3,1>>, <<"Psi",2,1>>, <<"Psi",3,1>>, <<"Psi",4,1>> >>,
       << <<"Phi",1,1>>, <<"Phi",2,1>>, <<"Phi",3,1>>, <<"Psi",2,1>>, <<"Psi",3,1>>, <<"Psi",4,1>>,
          <<"Phi",2,2>>, <<"Phi",3,2>>, <<"Psi",3,2>>, <<"Psi",4,2>> >>,
       << <<"Phi",1,1>>, <<"Phi",2,1>>, <<"Phi",3,1>>, <<"Psi",2,1>>, <<"Psi",3,1>>, <<"Psi",4,1>>,
          <<"Phi",2,2>>, <<"Phi",3,2>>, <<"Psi",3,2>>, <<"Psi",4,2>>, <<"Phi",3,3>>, <<"Psi",4,3>> >> >>

\* get_pattern without the second antenna configuration of a shared arm.
get_pattern_single_arm(nr_index, nc_index) ==
    CASE nr_index = 1 /\ nc_index = 0 -> [tag |-> "Ok", pattern |-> ANGLE_PATTERNS[1]]
      [] nr_index = 2 /\ nc_index = 0 -> [tag |-> "Ok", pattern |-> ANGLE_PATTERNS[2]]
      [] nr_index = 2 /\ nc_index = 1 -> [tag |-> "Ok", pattern |-> ANGLE_PATTERNS[3]]
      [] nr_index = 3 /\ nc_index = 0 -> [tag |-> "Ok", pattern |-> ANGLE_PATTERNS[4]]
      [] nr_index = 3 /\ nc_index = 1 -> [tag |-> "Ok", pattern |-> ANGLE_PATTERNS[5]]
      [] nr_index = 3 /\ nc_index = 2 -> [tag |-> "Ok", pattern |-> ANGLE_PATTERNS[6]]
      [] OTHER -> [tag |-> "InvalidAntennaConfig", nr_index |-> nr_index, nc_index |-> nc_index]

\* ExtractionConfig::get_pattern
get_pattern(nr_index, nc_index) ==
    CASE nr_index = 1 /\ nc_index \in {0, 2} -> [tag |-> "Ok", pattern |-> ANGLE_PATTERNS[1]]
      [] nr_index = 2 /\ nc_index = 0        -> [tag |-> "Ok", pattern |-> ANGLE_PATTERNS[2]]
      [] nr_index = 2 /\ nc_index \in {1, 2} -> [tag |-> "Ok", pattern |-> ANGLE_PATTERNS[3]]
      [] nr_index = 3 /\ nc_index = 0        -> [tag |-> "Ok", pattern |-> ANGLE_PATTERNS[4]]
      [] nr_index = 3 /\ nc_index = 1        -> [tag |-> "Ok", pattern |-> ANGLE_PATTERNS[5]]
      [] nr_index = 3 /\ nc_index \in {2, 3} -> [tag |-> "Ok", pattern |-> ANGLE_PATTERNS[6]]
      [] OTHER -> [tag |-> "InvalidAntennaConfig", nr_index |-> nr_index, nc_index |-> nc_index]

\* The (grouping, bandwidth index) subcarrier table of from_he_mimo_ctrl.
num_sub(grouping, bandwidth) ==
    CASE grouping = 0 /\ bandwidth = 0 -> 64
      [] grouping = 0 /\ bandwidth = 1 -> 122
      [] grouping = 0 /\ bandwidth = 2 -> 250
      [] grouping = 0 /\ bandwidth = 3 -> 500
      [] grouping = 1 /\ bandwidth = 0 -> 50
      [] grouping = 1 /\ bandwidth = 1 -> 32
      [] grouping = 1 /\ bandwidth = 2 -> 64
      [] grouping = 1 /\ bandwidth = 3 -> 160

\* from_he_mimo_ctrl with the widths of the two angle kinds exchanged.
from_he_mimo_ctrl_swapped(mimo_ctrl) ==
    LET phi_psi == get_angle_bit_sizes(mimo_ctrl.codebook_info, mimo_ctrl.feedback_type)
        pat     == get_pattern(mimo_ctrl.nr_index, mimo_ctrl.nc_index)
    IN  IF phi_psi.tag # "Ok" THEN phi_psi
        ELSE IF pat.tag # "Ok" THEN pat
        ELSE [tag |-> "Ok",
              bitfield_pattern |->
                  [k \in DOMAIN pat.pattern |->
                      IF pat.pattern[k][1] = "Phi" THEN phi_psi.psi_bit ELSE phi_psi.phi_bit],
              num_subcarrier |-> num_sub(mimo_ctrl.grouping, mimo_ctrl.bandwidth)]

\* ExtractionConfig::from_he_mimo_ctrl: bit sizes first, then the pattern.
from_he_mimo_ctrl(mimo_ctrl) ==
    LET phi_psi == get_angle_bit_sizes(mimo_ctrl.codebook_info, mimo_ctrl.feedback_type)
        pat     == get_pattern(mimo_ctrl.nr_index, mimo_ctrl.nc_index)
    IN  IF phi_psi.tag # "Ok" THEN phi_psi
        ELSE IF pat.tag # "Ok" THEN pat
        ELSE [tag |-> "Ok",
              bitfield_pattern |->
                  [k \in DOMAIN pat.pattern |->
                      IF pat.pattern[k][1] = "Phi" THEN phi_psi.phi_bit ELSE phi_psi.psi_bit],
              num_subcarrier |-> num_sub(mimo_ctrl.grouping, mimo_ctrl.bandwidth)]

\* sanity_check_extraction: the bit count is checked first, then the widths.
sanity_check_extraction(bitfield_pattern, num_chunks, byte_stream_len) ==
    LET total_bits_needed == SumSeq(bitfield_pattern) * num_chunks
    IN  IF byte_stream_len * 8 < total_bits_needed
        THEN [tag |-> "InsufficientBitsize", required |-> total_bits_needed,
              available |-> byte_stream_len * 8]
        ELSE IF \E k \in DOMAIN bitfield_pattern : bitfield_pattern[k] > 9
        THEN [tag |-> "InvalidBitfieldSize", given |-> SeqMax(bitfield_pattern),
              allowed |-> 9]
        ELSE [tag |-> "Ok"]

\* The sliding-window state of extract_bitfields after the `while` loop for
\* a field of bit_length bits: bytes are shifted in from the left until the
\* field lies within the 16-bit window. window_offset is a u8: in a debug
\* build an overflow panics, in a release build it wraps; indexing past
\* the stream panics in both.
RECURSIVE advance_window(_, _, _, _)
advance_window(byte_stream, st, bit_length, debug) ==
    IF debug /\ st.window_offset + bit_length > 255
    THEN [st EXCEPT !.tag = "Panic", !.err = "ArithmeticOverflow"]
    ELSE IF (st.window_offset + bit_length) % 256 <= 16 THEN st
    ELSE IF st.curr_byte >= Len(byte_stream)
    THEN [st EXCEPT !.tag = "Panic", !.err = "IndexOutOfBounds"]
    ELSE IF debug /\ st.window_offset < 8
    THEN [st EXCEPT !.tag = "Panic", !.err = "ArithmeticOverflow"]
    ELSE advance_window(byte_stream,
             [st EXCEPT !.bit_window = (@ \div 256) + byte_stream[st.curr_byte + 1] * 256,
                        !.window_offset = (@ + 248) % 256,
                        !.curr_byte = @ + 1],
             bit_length, debug)

\* The two nested `for` loops of extract_bitfields, run over the widths of
\* all chunks in order (ws is the pattern repeated num_chunks times); the
\* values are collected in st.values. Shift amounts of 16 and more panic in
\* a debug build and are taken modulo 16 in a release build.
RECURSIVE extract_fields(_, _, _, _)
extract_fields(byte_stream, ws, st, debug) ==
    IF ws = <<>> \/ st.tag # "Ok" THEN st
    ELSE LET bit_length == Head(ws)
             a == advance_window(byte_stream, st, bit_length, debug)
         IN  IF a.tag # "Ok" THEN a
             ELSE IF debug /\ (bit_length >= 16 \/ a.window_offset >= 16
                                \/ a.window_offset + bit_length > 255)
             THEN [a EXCEPT !.tag = "Panic", !.err = "ArithmeticOverflow"]
             ELSE LET mask == Pow2(bit_length % 16)
                      bitfield == (a.bit_window \div Pow2(a.window_offset % 16)) % mask
                  IN  extract_fields(byte_stream, Tail(ws),
                          [a EXCEPT !.values = Append(@, bitfield),
                                    !.window_offset = (@ + bit_length) % 256],
                          debug)

RECURSIVE Repeat(_, _)
Repeat(s, n) == IF n = 0 THEN <<>> ELSE s \o Repeat(s, n - 1)

\* extract_bitfields: the sanity check (debug builds only), the window over
\* the first two bytes (a panic for a stream shorter than that), then the
\* extraction; the result has num_chunks rows of Len(bitfield_pattern) values.
extract_bitfields(byte_stream, bitfield_pattern, num_chunks, debug) ==
    LET check == IF debug
                 THEN sanity_check_extraction(bitfield_pattern, num_chunks, Len(byte_stream))
                 ELSE [tag |-> "Ok"]
    IN  IF check.tag # "Ok" THEN check
        ELSE IF Len(byte_stream) < 2 THEN [tag |-> "Panic", err |-> "IndexOutOfBounds"]
        ELSE LET st == extract_fields(byte_stream, Repeat(bitfield_pattern, num_chunks),
                           [tag |-> "Ok", err |-> "none",
                            bit_window |-> byte_stream[1] + 256 * byte_stream[2],
                            window_offset |-> 0, curr_byte |-> 2, values |-> <<>>],
                           debug)
                 L == Len(bitfield_pattern)
             IN  IF st.tag # "Ok" THEN [tag |-> "Panic", err |-> st.err]
                 ELSE [tag |-> "Ok",
                       rows |-> [i \in 1..num_chunks |->
                                   [j \in 1..L |-> st.values[(i - 1) * L + j]]]]

\* extract_bfa / extract_bitfields as far as the outcome goes: the sanity
\* check of debug builds returns the error; a release build indexes past the
\* end of the payload and panics on the same inputs.
extract_bfa(payload_len, extraction_config) ==
    sanity_check_extraction(extraction_config.bitfield_pattern,
                            extraction_config.num_subcarrier, payload_len)

\* extract_from_packet with the header error unwrapped instead of returned.
extract_from_packet_unwrap(packet) ==
    LET extraction_config == from_he_mimo_ctrl(packet)
    IN  IF extraction_config.tag # "Ok"
        THEN [tag |-> "Panic", err |-> extraction_config.tag]
        ELSE LET bfa_angles == extract_bfa(packet.payload_len, extraction_config)
             IN  IF bfa_angles.tag # "Ok"
                 THEN [tag |-> "Panic", err |-> bfa_angles.tag]
                 ELSE [tag |-> "Ok", err |-> "none"]

\* extract_from_packet: Ok, an error value (from `?`), or a panic
\* (`.expect("BFA extraction failed")`).
extract_from_packet(packet) ==
    LET extraction_config == from_he_mimo_ctrl(packet)
    IN  IF extraction_config.tag # "Ok"
        THEN [tag |-> "Err", err |-> extraction_config.tag]
        ELSE LET bfa_angles == extract_bfa(packet.payload_len, extraction_config)
             IN  IF bfa_angles.tag # "Ok"
                 THEN [tag |-> "Panic", err |-> bfa_angles.tag]
                 ELSE [tag |-> "Ok", err |-> "none"]

\* The BfaData that extract_from_packet builds from a dissected packet, as
\* far as to_bfm reads it: the metadata of the header and, for bfa_angles,
\* the length of each row: num_subcarrier rows of one value per pattern
\* entry, i.e. the one function from the subcarriers to that length.
bfa_of_packet(packet) ==
    LET extraction_config == from_he_mimo_ctrl(packet)
    IN  [nr_index |-> packet.nr_index, nc_index |-> packet.nc_index,
         codebook_info |-> packet.codebook_info, feedback_type |-> packet.feedback_type,
         row_lens |-> CHOOSE rows \in [1..extraction_config.num_subcarrier ->
                                           {Len(extraction_config.bitfield_pattern)}] : TRUE]

\* An angle is kept exactly as num * pi / 2^exp (the code holds the nearest
\* f64). PiOver(k) is PI / ((1u64 << k) as f64).
PiOver(k) == [num |-> 1, exp |-> k]

TimesPi(n, a) == [num |-> n * a.num, exp |-> a.exp]

PlusPi(a, b) ==
    LET e == IF a.exp >= b.exp THEN a.exp ELSE b.exp
    IN  [num |-> a.num * Pow2(e - a.exp) + b.num * Pow2(e - b.exp), exp |-> e]

\* quantized without the half-step offset.
quantized_no_offset(kind, angle, bitsizes) ==
    IF kind = "Phi" THEN PlusPi(TimesPi(angle, PiOver(bitsizes.phi_bit - 1)),
                                TimesPi(0, PiOver(bitsizes.phi_bit)))
    ELSE PlusPi(TimesPi(angle, PiOver(bitsizes.psi_bit + 1)),
                TimesPi(0, PiOver(bitsizes.psi_bit + 2)))

\* to_bfm, step 1 of the fold: angle * const1 + const2 with the constants
\* of the angle's kind.
quantized(kind, angle, bitsizes) ==
    LET const1_phi == PiOver(bitsizes.phi_bit - 1)
        const2_phi == PiOver(bitsizes.phi_bit)
        const1_psi == PiOver(bitsizes.psi_bit + 1)
        const2_psi == PiOver(bitsizes.psi_bit + 2)
    IN  IF kind = "Phi" THEN PlusPi(TimesPi(angle, const1_phi), const2_phi)
        ELSE PlusPi(TimesPi(angle, const1_psi), const2_psi)

\* An entry of the accumulator is kept by what the arithmetic guarantees of
\* it: "Z" is 0+0i, "R" has imaginary part 0, "C" is any complex number.
\* Array2::eye(n); entry [r][c] is row r, column c, both from 1.
eye(n) == [r \in 1..n |-> [c \in 1..n |-> IF r = c THEN "R" ELSE "Z"]]

\* An entry times exp(i * phase): zero stays zero. The phase is an odd
\* multiple of pi / 2^phi_bit, so the factor is never real.
Scaled(e) == IF e = "Z" THEN "Z" ELSE "C"

\* cos * a -/+ sin * b with real cos and sin.
Mixed(a, b) ==
    IF a = "Z" /\ b = "Z" THEN "Z"
    ELSE IF a = "C" \/ b = "C" THEN "C"
    ELSE "R"

\* apply_d_inplace that takes pos as the 1-based index of the pattern
\* table, one column too far to the right.
apply_d_inplace_one_based(acc, pos) ==
    [r \in DOMAIN acc |-> [c \in DOMAIN acc[r] |->
        IF c = pos + 2 THEN Scaled(acc[r][c]) ELSE acc[r][c]]]

\* apply_d_inplace: column pos (from 0) of every row is scaled.
apply_d_inplace(acc, pos) ==
    [r \in DOMAIN acc |-> [c \in DOMAIN acc[r] |->
        IF c = pos + 1 THEN Scaled(acc[r][c]) ELSE acc[r][c]]]

\* apply_givens_inplace: the columns row_idx and col_idx (from 0) of every
\* row are rotated into each other.
apply_givens_inplace(acc, row_idx, col_idx) ==
    [r \in DOMAIN acc |->
        LET temp_i == acc[r][row_idx + 1]
            temp_j == acc[r][col_idx + 1]
        IN  [c \in DOMAIN acc[r] |->
                IF c = col_idx + 1 THEN Mixed(temp_i, temp_j)
                ELSE IF c = row_idx + 1 THEN Mixed(temp_i, temp_j)
                ELSE acc[r][c]]]

\* The fold of to_bfm over the pattern entries i..Len(pattern) for one
\* subcarrier whose row holds row_len angles: inner_angles[i] panics past the
\* end of the row.
RECURSIVE fold_pattern(_, _, _, _)
fold_pattern(pattern, i, row_len, acc) ==
    IF i > Len(pattern) THEN [tag |-> "Ok", acc |-> acc]
    ELSE IF i > row_len THEN [tag |-> "Panic", err |-> "IndexOutOfBounds"]
    ELSE LET kind == pattern[i][1]
             row  == pattern[i][2] - 1
             col  == pattern[i][3] - 1
         IN  fold_pattern(pattern, i + 1, row_len,
                 IF kind = "Phi" THEN apply_d_inplace(acc, row)
                 ELSE apply_givens_inplace(acc, row, col))

\* The `for` loop of to_bfm over the subcarriers: each runs the fold, then
\* the slice 0..num_spatial of the columns of its accumulator, which panics
\* when num_spatial exceeds the num_receive columns. The slice fails alike
\* for every subcarrier, so the loop gets past the first subcarrier only
\* when it does not; from there on only a fold can panic. A fold depends on
\* the subcarrier through the length of its row only.
bfm_subcarriers(pattern, row_lens, num_receive, num_spatial) ==
    LET later_lens == {row_lens[sub_idx] : sub_idx \in DOMAIN row_lens}
        folds(lens) == \A row_len \in lens :
                          fold_pattern(pattern, 1, row_len, eye(num_receive)).tag = "Ok"
    IN  IF DOMAIN row_lens = {} THEN [tag |-> "Ok", err |-> "none"]
        ELSE IF ~folds({row_lens[1]}) THEN [tag |-> "Panic", err |-> "IndexOutOfBounds"]
        ELSE IF num_spatial > num_receive THEN [tag |-> "Panic", err |-> "SliceOutOfBounds"]
        ELSE IF ~folds(later_lens) THEN [tag |-> "Panic", err |-> "IndexOutOfBounds"]
        ELSE [tag |-> "Ok", err |-> "none"]

\* to_bfm with the bit-size error unwrapped instead of returned.
to_bfm_unwrap(bfa) ==
    LET pattern  == get_pattern(bfa.nr_index, bfa.nc_index)
        bitsizes == get_angle_bit_sizes(bfa.codebook_info, bfa.feedback_type)
        num_receive == bfa.nr_index + 1
        num_spatial == bfa.nc_index + 1
    IN  IF pattern.tag # "Ok" THEN [tag |-> "Err", err |-> pattern.tag]
        ELSE IF bitsizes.tag # "Ok" THEN [tag |-> "Panic", err |-> bitsizes.tag]
        ELSE LET loop == bfm_subcarriers(pattern.pattern, bfa.row_lens,
                                         num_receive, num_spatial)
                 acc  == fold_pattern(pattern.pattern, 1, Len(pattern.pattern),
                                      eye(num_receive)).acc
             IN  IF loop.tag # "Ok" THEN loop
                 ELSE [tag |-> "Ok", err |-> "none",
                       shape |-> <<num_receive, num_spatial, Len(bfa.row_lens)>>,
                       feedback_matrix |->
                           IF DOMAIN bfa.row_lens = {} THEN <<>>
                           ELSE CHOOSE bfm \in [DOMAIN bfa.row_lens ->
                               {[r \in 1..num_receive |-> [c \in 1..num_spatial |-> acc[r][c]]]}] :
                               TRUE]

\* to_bfm: an error value when the metadata is rejected (the pattern first,
\* then the bit sizes), a panic out of the loop, else the matrix of shape
\* (num_receive, num_spatial, n_subcarriers) holding for each subcarrier the
\* first num_spatial columns of its accumulator. The accumulator's entries
\* do not depend on the angle values in the form kept here.
to_bfm(bfa) ==
    LET pattern  == get_pattern(bfa.nr_index, bfa.nc_index)
        bitsizes == get_angle_bit_sizes(bfa.codebook_info, bfa.feedback_type)
        num_receive == bfa.nr_index + 1
        num_spatial == bfa.nc_index + 1
    IN  IF pattern.tag # "Ok" THEN [tag |-> "Err", err |-> pattern.tag]
        ELSE IF bitsizes.tag # "Ok" THEN [tag |-> "Err", err |-> bitsizes.tag]
        ELSE LET loop == bfm_subcarriers(pattern.pattern, bfa.row_lens,
                                         num_receive, num_spatial)
                 acc  == fold_pattern(pattern.pattern, 1, Len(pattern.pattern),
                                      eye(num_receive)).acc
             IN  IF loop.tag # "Ok" THEN loop
                 ELSE [tag |-> "Ok", err |-> "none",
                       shape |-> <<num_receive, num_spatial, Len(bfa.row_lens)>>,
                       feedback_matrix |->
                           IF DOMAIN bfa.row_lens = {} THEN <<>>
                           ELSE CHOOSE bfm \in [DOMAIN bfa.row_lens ->
                               {[r \in 1..num_receive |-> [c \in 1..num_spatial |-> acc[r][c]]]}] :
                               TRUE]

\* A 40-bit value is kept as two limbs, lo (bits 0..23) and hi (bits
\* 24..39). U40Field is (value >> offset) & (2^width - 1) on such a value.
U40Field(value, offset, width) ==
    IF offset >= 24 THEN (value.hi \div Pow2(offset - 24)) % Pow2(width)
    ELSE IF offset + width <= 24 THEN (value.lo \div Pow2(offset)) % Pow2(width)
    ELSE (value.lo \div Pow2(offset))
         + (value.hi % Pow2(offset + width - 24)) * Pow2(24 - offset)

\* from_buf with the five bytes taken in big-endian order.
from_buf_big_endian(buf) ==
    IF Len(buf) < 5 THEN [tag |-> "Panic", err |-> "IndexOutOfBounds"]
    ELSE [tag |-> "Ok",
          value |-> [lo |-> buf[5] + buf[4] * Pow2(8) + buf[3] * Pow2(16),
                     hi |-> buf[2] + buf[1] * Pow2(8)]]

\* HeMimoControl::from_buf: the first five bytes as a little-endian 40-bit
\* value (the additions stand for `|` on disjoint bit ranges of a u64);
\* indexing a shorter slice panics.
from_buf(buf) ==
    IF Len(buf) < 5 THEN [tag |-> "Panic", err |-> "IndexOutOfBounds"]
    ELSE [tag |-> "Ok",
          value |-> [lo |-> buf[1] + buf[2] * Pow2(8) + buf[3] * Pow2(16),
                     hi |-> buf[4] + buf[5] * Pow2(8)]]

\* The accessors of the bitsize(40) struct HeMimoControl: the fields are
\* laid out from the least significant bit in declaration order.
HeMimoControl(value) ==
    [nc_index                    |-> U40Field(value, 0, 3),
     nr_index                    |-> U40Field(value, 3, 3),
     bandwidth                   |-> U40Field(value, 6, 2),
     grouping                    |-> U40Field(value, 8, 1),
     codebook_info               |-> U40Field(value, 9, 1),
     feedback_type               |-> U40Field(value, 10, 2),
     remaining_feedback_segments |-> U40Field(value, 12, 3),
     first_feedback_segments     |-> U40Field(value, 15, 1),
     ru_start_index              |-> U40Field(value, 16, 7),
     ru_end_index                |-> U40Field(value, 23, 7),
     dialog_token_number         |-> U40Field(value, 30, 6),
     reserved_padding            |-> U40Field(value, 36, 4)]

\* Bandwidth::to_mhz with a shift of 1 instead of 2.
to_mhz_shift_one(index) ==
    LET shifted == Pow2(index)
    IN  IF shifted * 10 >= Pow2(16) THEN [tag |-> "Overflow"]
        ELSE [tag |-> "Ok", value |-> shifted * 10]

\* Bandwidth::to_mhz: (2 << index) * 10 as u16. A product that does not fit
\* panics in a debug build and wraps in a release build; both are "Overflow".
to_mhz(index) ==
    LET shifted == (2 * Pow2(index)) % Pow2(16)
    IN  IF shifted * 10 >= Pow2(16) THEN [tag |-> "Overflow"]
        ELSE [tag |-> "Ok", value |-> shifted * 10]

\* Bandwidth::to_hz: to_mhz() as u32 * 1_000_000; the product fits a u32
\* (at most 4,294,967,295) exactly when to_mhz() is at most 4294.
to_hz(index) ==
    LET mhz == to_mhz(index)
    IN  IF mhz.tag # "Ok" \/ mhz.value > 4294 THEN [tag |-> "Overflow"]
        ELSE [tag |-> "Ok", value |-> mhz.value * 1000000]

\* The frames the capture source can deliver: a valid 2x1 report, a 1x1
\* header (rejected antenna config), a CQI header (rejected feedback type),
\* a valid header with a truncated payload, and a report with the accepted
\* antenna configuration (1,2).
Frame(nr, nc, cb, fb, g, bw, len) ==
    [nr_index |-> nr, nc_index |-> nc, codebook_info |-> cb, feedback_type |-> fb,
     grouping |-> g, bandwidth |-> bw, payload_len |-> len]

FrameKinds ==
    { Frame(1, 0, 0, 0, 1, 1, 24),
      Frame(0, 0, 0, 0, 1, 1, 24),
      Frame(1, 0, 0, 2, 1, 1, 24),
      Frame(1, 0, 0, 0, 1, 1, 23),
      Frame(1, 2, 0, 0, 1, 1, 24) }

\* ---------------------------------------------------------------- state
VARIABLES
    bee,        \* the StreamBee fields
    mpc,        \* position of the thread that owns the StreamBee
    panic_site, \* the method in which the owner thread panicked
    ncalls,     \* calls made on the StreamBee so far
    stops,      \* stop() calls that returned
    hpc,        \* capture thread: none / running / done / panicked
    hloc,       \* position inside one iteration of harvest's loop
    cur,        \* the record the iteration holds
    h,          \* the values moved into the capture thread
    nread,      \* frames read so far
    decoded,    \* ids of the frames that were dissected successfully
    h_panic,    \* the error on which the capture thread panicked
    pollen_file,\* ids of the frames written to the savefile
    chans,      \* channels and, for File sinks, their writer workers
    fn_in,      \* a call of a library function: the function and its arguments
    fn_out,     \* ... and what the call returned
    wr,         \* a Writer used on its own (persistence)
    wr_log      \* ... and the results of the calls made on it

\* The engine with its threads, and the state of the library-level runs.
engine_vars == <<bee, mpc, panic_site, ncalls, stops, hpc, hloc, cur, h, nread,
                 decoded, h_panic, pollen_file, chans>>
aux == <<fn_in, fn_out, wr, wr_log>>
vars == <<engine_vars, aux>>

NoRecord == [id |-> 0]

\* The engine's fields after StreamBee::new, no thread started.
InitEngine ==
    /\ bee = [cap |-> TRUE, pollen_sink |-> FALSE, nectar_sink |-> 0, honey_sink |-> 0,
              running |-> FALSE, harvester |-> FALSE,
              bfa_file_writer |-> 0, bfm_file_writer |-> 0]
    /\ mpc = "idle"
    /\ panic_site = "none"
    /\ ncalls = 0
    /\ stops = 0
    /\ hpc = "none"
    /\ hloc = "top"
    /\ cur = NoRecord
    /\ h = [pollen_sink |-> FALSE, nectar_sink |-> 0, honey_sink |-> 0, print |-> FALSE]
    /\ nread = 0
    /\ decoded = <<>>
    /\ h_panic = "none"
    /\ pollen_file = <<>>
    /\ chans = <<>>

\* No library-level run is in progress.
InitAux ==
    /\ fn_in = [fn |-> "none"]
    /\ fn_out = [tag |-> "none"]
    /\ wr = [kind |-> "none"]
    /\ wr_log = <<>>

\* StreamBee::new
Init == InitEngine /\ InitAux

Callable == mpc \in {"idle", "stopped"} /\ ncalls < MaxCalls

ChanIds == DOMAIN chans

\* A channel created by bounded(CHANNEL_CAP); for a File sink the record
\* also holds the state of the spawned worker.
NewChan(kind, file) ==
    [kind |-> kind, file |-> file, q |-> <<>>, sent |-> <<>>, last_try |-> "none",
     rx_alive |-> TRUE, recvd |-> <<>>,
     wpc |-> IF file THEN "spawned" ELSE "none",
     packet_buffer |-> <<>>, batches |-> <<>>, writer |-> "none", fault |-> "none"]

\* A sender of channel c exists: in the engine's slot or in the running
\* capture thread (its locals are dropped when it returns or panics).
SenderAlive(c) ==
    \/ bee.nectar_sink = c
    \/ bee.honey_sink = c
    \/ hpc = "running" /\ (h.nectar_sink = c \/ h.honey_sink = c)

WorkerLive(c) == chans[c].file /\ chans[c].wpc \in {"spawned", "recv"}
WorkerTerminated(c) == chans[c].file /\ chans[c].wpc \in {"done", "panicked"}

\* ------------------------------------------------------ engine methods
Panic(site) ==
    /\ mpc' = "panicked"
    /\ panic_site' = site
    /\ ncalls' = ncalls + 1
    /\ UNCHANGED <<stops, hpc, hloc, cur, h, nread, decoded, h_panic,
                   pollen_file, chans>>

\* StreamBee::subscribe_for_honey
subscribe_for_honey(sink) ==
    /\ Callable
    /\ UNCHANGED aux
    /\ IF bee.honey_sink # 0
       THEN /\ Panic("subscribe_for_honey")
            /\ UNCHANGED bee
       ELSE /\ ncalls' = ncalls + 1
            /\ chans' = Append(chans, NewChan("bfm", sink = "File"))
            /\ bee' = [bee EXCEPT !.honey_sink = Len(chans) + 1,
                                  !.bfm_file_writer =
                                      IF sink = "File" THEN Len(chans) + 1 ELSE @]
            /\ mpc' = "idle"
            /\ UNCHANGED <<panic_site, stops, hpc, hloc, cur, h, nread,
                           decoded, h_panic, pollen_file>>

\* subscribe_for_nectar without the check for a registered sink.
subscribe_for_nectar_unchecked(sink) ==
    /\ Callable
    /\ UNCHANGED aux
    /\ ncalls' = ncalls + 1
    /\ chans' = Append(chans, NewChan("bfa", sink = "File"))
    /\ bee' = [bee EXCEPT !.nectar_sink = Len(chans) + 1,
                          !.bfa_file_writer =
                              IF sink = "File" THEN Len(chans) + 1 ELSE @]
    /\ mpc' = "idle"
    /\ UNCHANGED <<panic_site, stops, hpc, hloc, cur, h, nread,
                   decoded, h_panic, pollen_file>>

\* StreamBee::subscribe_for_nectar
subscribe_for_nectar(sink) ==
    /\ Callable
    /\ UNCHANGED aux
    /\ IF bee.nectar_sink # 0
       THEN /\ Panic("subscribe_for_nectar")
            /\ UNCHANGED bee
       ELSE /\ ncalls' = ncalls + 1
            /\ chans' = Append(chans, NewChan("bfa", sink = "File"))
            /\ bee' = [bee EXCEPT !.nectar_sink = Len(chans) + 1,
                                  !.bfa_file_writer =
                                      IF sink = "File" THEN Len(chans) + 1 ELSE @]
            /\ mpc' = "idle"
            /\ UNCHANGED <<panic_site, stops, hpc, hloc, cur, h, nread,
                           decoded, h_panic, pollen_file>>

\* StreamBee::subscribe_for_pollen
subscribe_for_pollen ==
    /\ Callable
    /\ UNCHANGED aux
    /\ IF bee.pollen_sink
       THEN /\ Panic("subscribe_for_pollen")
            /\ UNCHANGED bee
       ELSE /\ bee' = [bee EXCEPT !.pollen_sink = TRUE]
            /\ mpc' = "idle"
            /\ ncalls' = ncalls + 1
            /\ UNCHANGED <<panic_site, stops, hpc, hloc, cur, h, nread,
                           decoded, h_panic, pollen_file, chans>>

\* StreamBee::start_harvesting: the flag is stored before the capture is
\* taken, so a call without a capture panics with running = true.
start_harvesting(print) ==
    /\ Callable
    /\ UNCHANGED aux
    /\ IF ~bee.cap
       THEN /\ Panic("start_harvesting")
            /\ bee' = [bee EXCEPT !.running = TRUE]
       ELSE /\ bee' = [bee EXCEPT !.running = TRUE, !.cap = FALSE,
                                  !.pollen_sink = FALSE, !.nectar_sink = 0,
                                  !.honey_sink = 0, !.harvester = TRUE]
            /\ h' = [pollen_sink |-> bee.pollen_sink, nectar_sink |-> bee.nectar_sink,
                     honey_sink |-> bee.honey_sink, print |-> print]
            /\ hpc' = "running"
            /\ ncalls' = ncalls + 1
            /\ mpc' = "idle"
            /\ UNCHANGED <<panic_site, stops, hloc, cur, nread, decoded, h_panic,
                           pollen_file, chans>>

\* StreamBee::stop, up to the join of the capture thread.
StopBegin ==
    /\ Callable
    /\ UNCHANGED aux
    /\ ncalls' = ncalls + 1
    /\ bee' = [bee EXCEPT !.running = FALSE, !.harvester = FALSE]
    /\ mpc' = IF bee.harvester THEN "stop_join_harvester" ELSE "stop_join_bfa"
    /\ UNCHANGED <<panic_site, stops, hpc, hloc, cur, h, nread, decoded,
                   h_panic, pollen_file, chans>>

\* StreamBee::stop: harvester.join() returns once the capture thread ended.
StopJoinHarvester ==
    /\ mpc = "stop_join_harvester"
    /\ hpc \in {"done", "panicked"}
    /\ mpc' = "stop_join_bfa"
    /\ UNCHANGED aux
    /\ UNCHANGED <<bee, panic_site, ncalls, stops, hpc, hloc, cur, h, nread,
                   decoded, h_panic, pollen_file, chans>>

\* StreamBee::stop: the BFA writer is joined (only that one), the pollen
\* sink is flushed and the nectar and pollen slots are cleared.
StopJoinWriter ==
    /\ mpc = "stop_join_bfa"
    /\ bee.bfa_file_writer # 0 => WorkerTerminated(bee.bfa_file_writer)
    /\ bee' = [bee EXCEPT !.bfa_file_writer = 0, !.nectar_sink = 0,
                          !.pollen_sink = FALSE, !.harvester = FALSE]
    /\ mpc' = "stopped"
    /\ stops' = stops + 1
    /\ UNCHANGED aux
    /\ UNCHANGED <<panic_site, ncalls, hpc, hloc, cur, h, nread, decoded,
                   h_panic, pollen_file, chans>>

\* ------------------------------------------------------------ channels
\* try_send_result that does not notice a dropped receiver.
try_send_result_blind(ch) ==
    IF Len(ch.q) >= CHANNEL_CAP THEN "Full" ELSE "Ok"

\* Sender::try_send on a bounded channel: Disconnected when the receiver is
\* gone, Full when CHANNEL_CAP records are queued, else the record is queued.
try_send_result(ch) ==
    IF ~ch.rx_alive THEN "Disconnected"
    ELSE IF Len(ch.q) >= CHANNEL_CAP THEN "Full"
    ELSE "Ok"

try_send(ch, rec) ==
    IF try_send_result(ch) = "Ok"
    THEN [ch EXCEPT !.q = Append(@, rec), !.sent = Append(@, rec), !.last_try = "Ok"]
    ELSE [ch EXCEPT !.last_try = try_send_result(ch)]

\* ------------------------------------------------------- capture thread
HarvesterUnchangedMain == UNCHANGED <<bee, mpc, panic_site, ncalls, stops, h, aux>>

\* harvest: the loop condition `running.load()` is false.
HarvestStopObserved ==
    /\ hpc = "running" /\ hloc = "top"
    /\ ~bee.running
    /\ hpc' = "done"
    /\ HarvesterUnchangedMain
    /\ UNCHANGED <<hloc, cur, nread, decoded, h_panic, pollen_file, chans>>

\* harvest: next_packet returned TimeoutExpired; sleep and continue.
HarvestTimeout ==
    /\ hpc = "running" /\ hloc = "top"
    /\ bee.running
    /\ HarvesterUnchangedMain
    /\ UNCHANGED <<hpc, hloc, cur, nread, decoded, h_panic, pollen_file, chans>>

\* harvest: next_packet returned another error (EOF); break.
HarvestEof ==
    /\ hpc = "running" /\ hloc = "top"
    /\ bee.running
    /\ hpc' = "done"
    /\ HarvesterUnchangedMain
    /\ UNCHANGED <<hloc, cur, nread, decoded, h_panic, pollen_file, chans>>

\* HarvestPacket with the savefile written after the dissection, so that a
\* skipped frame (continue) or a panic leaves it out.
HarvestPacket_pollen_last(packet) ==
    /\ hpc = "running" /\ hloc = "top"
    /\ bee.running
    /\ nread < MaxFrames
    /\ nread' = nread + 1
    /\ IF h.honey_sink # 0 \/ h.nectar_sink # 0 \/ h.print
       THEN LET data == extract_from_packet(packet)
            IN  CASE data.tag = "Ok" ->
                       /\ decoded' = Append(decoded, nread + 1)
                       /\ cur' = [id |-> nread + 1, frame |-> packet]
                       /\ hloc' = "honey"
                       /\ pollen_file' = IF h.pollen_sink THEN Append(pollen_file, nread + 1)
                                         ELSE pollen_file
                       /\ UNCHANGED <<hpc, h_panic>>
                  [] data.tag = "Err" ->
                       UNCHANGED <<decoded, cur, hloc, hpc, h_panic, pollen_file>>
                  [] data.tag = "Panic" ->
                       /\ h_panic' = data.err
                       /\ hpc' = "panicked"
                       /\ UNCHANGED <<decoded, cur, hloc, pollen_file>>
       ELSE /\ pollen_file' = IF h.pollen_sink THEN Append(pollen_file, nread + 1)
                              ELSE pollen_file
            /\ UNCHANGED <<decoded, cur, hloc, hpc, h_panic>>
    /\ HarvesterUnchangedMain
    /\ UNCHANGED chans

\* harvest: next_packet returned a frame. It is written to the pollen sink
\* and, if a record sink or print is active, dissected: an error value skips
\* the frame (continue), a panic ends the thread.
HarvestPacket(packet) ==
    /\ hpc = "running" /\ hloc = "top"
    /\ bee.running
    /\ nread < MaxFrames
    /\ nread' = nread + 1
    /\ pollen_file' = IF h.pollen_sink THEN Append(pollen_file, nread + 1) ELSE pollen_file
    /\ IF h.honey_sink # 0 \/ h.nectar_sink # 0 \/ h.print
       THEN LET data == extract_from_packet(packet)
            IN  CASE data.tag = "Ok" ->
                       /\ decoded' = Append(decoded, nread + 1)
                       /\ cur' = [id |-> nread + 1, frame |-> packet]
                       /\ hloc' = "honey"
                       /\ UNCHANGED <<hpc, h_panic>>
                  [] data.tag = "Err" ->
                       UNCHANGED <<decoded, cur, hloc, hpc, h_panic>>
                  [] data.tag = "Panic" ->
                       /\ h_panic' = data.err
                       /\ hpc' = "panicked"
                       /\ UNCHANGED <<decoded, cur, hloc>>
       ELSE UNCHANGED <<decoded, cur, hloc, hpc, h_panic>>
    /\ HarvesterUnchangedMain
    /\ UNCHANGED chans

\* harvest, the honey branch: to_bfm, then try_send on the honey sender; a
\* conversion error skips the offer, a panic inside to_bfm ends the thread.
HarvestHoney ==
    /\ hpc = "running" /\ hloc = "honey"
    /\ IF h.honey_sink # 0
       THEN \E bfa \in {bfa_of_packet(cur.frame)} : \E bfm \in {to_bfm(bfa)} :
                CASE bfm.tag = "Ok" ->
                       /\ chans' = [chans EXCEPT ![h.honey_sink] = try_send(@, cur.id)]
                       /\ hloc' = "nectar"
                       /\ UNCHANGED <<hpc, h_panic>>
                  [] bfm.tag = "Err" ->
                       /\ hloc' = "nectar"
                       /\ UNCHANGED <<chans, hpc, h_panic>>
                  [] bfm.tag = "Panic" ->
                       /\ hpc' = "panicked"
                       /\ h_panic' = bfm.err
                       /\ UNCHANGED <<chans, hloc>>
       ELSE /\ hloc' = "nectar"
            /\ UNCHANGED <<chans, hpc, h_panic>>
    /\ HarvesterUnchangedMain
    /\ UNCHANGED <<cur, nread, decoded, pollen_file>>

\* The nectar branch with a blocking send: the step waits while the
\* channel is full.
HarvestNectar_blocking ==
    /\ hpc = "running" /\ hloc = "nectar"
    /\ h.nectar_sink # 0 => try_send_result(chans[h.nectar_sink]) # "Full"
    /\ chans' = IF h.nectar_sink # 0
                THEN [chans EXCEPT ![h.nectar_sink] = try_send(@, cur.id)]
                ELSE chans
    /\ hloc' = "top"
    /\ cur' = NoRecord
    /\ HarvesterUnchangedMain
    /\ UNCHANGED <<hpc, nread, decoded, h_panic, pollen_file>>

\* harvest, the nectar branch: try_send on the nectar sender (which takes
\* the record); the iteration ends.
HarvestNectar ==
    /\ hpc = "running" /\ hloc = "nectar"
    /\ chans' = IF h.nectar_sink # 0
                THEN [chans EXCEPT ![h.nectar_sink] = try_send(@, cur.id)]
                ELSE chans
    /\ hloc' = "top"
    /\ cur' = NoRecord
    /\ HarvesterUnchangedMain
    /\ UNCHANGED <<hpc, nread, decoded, h_panic, pollen_file>>

Harvester ==
    \/ HarvestStopObserved
    \/ HarvestTimeout
    \/ HarvestEof
    \/ \E packet \in FrameKinds : HarvestPacket(packet)
    \/ HarvestHoney
    \/ HarvestNectar

\* ------------------------------------------------------- writer workers
WorkerUnchanged ==
    UNCHANGED <<bee, mpc, panic_site, ncalls, stops, hpc, hloc, cur, h, nread,
                decoded, h_panic, pollen_file, aux>>

\* write_bfa_packets_to_file / write_bfm_packets_to_file: Writer::new;
\* `.expect` panics on an error, which drops the receiver.
WorkerCreateWriter(c, ok) ==
    /\ c \in ChanIds /\ chans[c].file
    /\ chans[c].wpc = "spawned"
    /\ chans' = [chans EXCEPT ![c] =
                   IF ok THEN [@ EXCEPT !.wpc = "recv", !.writer = "open"]
                   ELSE [@ EXCEPT !.wpc = "panicked", !.fault = "create",
                                  !.rx_alive = FALSE, !.q = <<>>]]
    /\ WorkerUnchanged

\* worker_recv with the record inserted at the front of the buffer.
worker_recv_front(ch, ok) ==
    LET packet_buffer == <<Head(ch.q)>> \o ch.packet_buffer
    IN  IF Len(packet_buffer) <= BATCH_SIZE
        THEN [ch EXCEPT !.q = Tail(@), !.packet_buffer = packet_buffer]
        ELSE [ch EXCEPT !.q = Tail(@), !.packet_buffer = <<>>,
                        !.batches = Append(@, [data |-> packet_buffer, path |-> "threshold"])]

\* One iteration of `while let Ok(bfi_data) = rx.recv()`: push, continue
\* while len <= BATCH_SIZE, else add_batch and clear (return on error).
\* The writer is dropped without finalize when the worker returns.
worker_recv(ch, ok) ==
    LET packet_buffer == Append(ch.packet_buffer, Head(ch.q))
    IN  IF Len(packet_buffer) <= BATCH_SIZE
        THEN [ch EXCEPT !.q = Tail(@), !.packet_buffer = packet_buffer]
        ELSE IF ok
        THEN [ch EXCEPT !.q = Tail(@), !.packet_buffer = <<>>,
                        !.batches = Append(@, [data |-> packet_buffer, path |-> "threshold"])]
        ELSE [ch EXCEPT !.q = <<>>, !.packet_buffer = <<>>, !.wpc = "done",
                        !.fault = "add_batch", !.rx_alive = FALSE,
                        !.writer = "dropped"]

WorkerRecv(c, ok) ==
    /\ c \in ChanIds /\ chans[c].file
    /\ chans[c].wpc = "recv"
    /\ chans[c].q # <<>>
    /\ ok = FALSE => Len(chans[c].packet_buffer) >= BATCH_SIZE
    /\ chans' = [chans EXCEPT ![c] = worker_recv(@, ok)]
    /\ WorkerUnchanged

\* worker_closed returning without writing the residual buffer.
worker_closed_noflush(ch, ok) ==
    [ch EXCEPT !.wpc = "done", !.rx_alive = FALSE, !.writer = "dropped",
               !.packet_buffer = <<>>]

\* recv() returned Err: the channel is empty and every sender is dropped.
\* The residual buffer is written unless it is empty; the worker returns.
worker_closed(ch, ok) ==
    IF ch.packet_buffer = <<>>
    THEN [ch EXCEPT !.wpc = "done", !.rx_alive = FALSE, !.writer = "dropped"]
    ELSE IF ok
    THEN [ch EXCEPT !.wpc = "done", !.rx_alive = FALSE, !.writer = "dropped",
                    !.batches = Append(@, [data |-> ch.packet_buffer, path |-> "residual"]),
                    !.packet_buffer = <<>>]
    ELSE [ch EXCEPT !.wpc = "done", !.rx_alive = FALSE, !.writer = "dropped",
                    !.fault = "add_batch", !.packet_buffer = <<>>]

WorkerClosed(c, ok) ==
    /\ c \in ChanIds /\ chans[c].file
    /\ chans[c].wpc = "recv"
    /\ chans[c].q = <<>>
    /\ ~SenderAlive(c)
    /\ ok = FALSE => chans[c].packet_buffer # <<>>
    /\ chans' = [chans EXCEPT ![c] = worker_closed(@, ok)]
    /\ WorkerUnchanged

\* The owner of a Queue sink's receiver takes one record.
QueueRecv(c) ==
    /\ c \in ChanIds /\ ~chans[c].file
    /\ chans[c].rx_alive
    /\ chans[c].q # <<>>
    /\ chans' = [chans EXCEPT ![c] = [@ EXCEPT !.q = Tail(@),
                                               !.recvd = Append(@, Head(chans[c].q))]]
    /\ WorkerUnchanged

Workers ==
    \/ \E c \in ChanIds, ok \in BOOLEAN : WorkerCreateWriter(c, ok)
    \/ \E c \in ChanIds, ok \in BOOLEAN : WorkerRecv(c, ok)
    \/ \E c \in ChanIds, ok \in BOOLEAN : WorkerClosed(c, ok)
    \/ \E c \in ChanIds : QueueRecv(c)

Engine ==
    \/ \E sink \in {"File", "Queue"} : subscribe_for_honey(sink)
    \/ \E sink \in {"File", "Queue"} : subscribe_for_nectar(sink)
    \/ subscribe_for_pollen
    \/ \E print \in BOOLEAN : start_harvesting(print)
    \/ StopBegin
    \/ StopJoinHarvester
    \/ StopJoinWriter

Next == Engine \/ Harvester \/ Workers

Spec == Init /\ [][Next]_vars

\* The capture thread is scheduled: an enabled step of harvest is taken.
\* Nothing is assumed of the owner of the StreamBee, of the writer workers
\* or of the consumers of Queue sinks.
LiveSpec == Init /\ [][Next]_vars /\ WF_vars(Harvester)

\* ------------------------------------------------- Writer on its own
\* Number of add_batch / finalize calls made on one Writer.
MaxWriterCalls == 4

\* Writer::new: a Parquet writer creates (truncates) the file and can fail
\* with an I/O error; FileType::_Dummy gives the _Dummy writer.
Writer_new(file_type, ok) ==
    IF file_type = "_Dummy" THEN [kind |-> "_Dummy", writer |-> "None", rows |-> 0, file |-> "none"]
    ELSE IF ok THEN [kind |-> "Parquet", writer |-> "Some", rows |-> 0, file |-> "open"]
    ELSE [kind |-> "failed", writer |-> "None", rows |-> 0, file |-> "none"]

\* BatchWriter::write (reached from add_bfa_batch / add_bfm_batch): writes
\* through the ArrowWriter while it is there, else fails.
BatchWriter_write(w, ok) ==
    IF w.writer = "Some"
    THEN IF ok THEN [w |-> [w EXCEPT !.rows = @ + 1], result |-> "Ok"]
         ELSE [w |-> w, result |-> "Err(Parquet(io))"]
    ELSE [w |-> w, result |-> "Err(Parquet(Writer has been finalized))"]

\* Writer::add_bfa_batch / add_bfm_batch: the _Dummy writer ignores the
\* batch and returns Ok.
Writer_add_batch(w, ok) ==
    IF w.kind = "_Dummy" THEN [w |-> w, result |-> "Ok"]
    ELSE BatchWriter_write(w, ok)

\* finalize that leaves the ArrowWriter in place.
BatchWriter_finalize_keep(w, ok) ==
    IF w.writer = "None"
    THEN [w |-> w, result |-> "Err(Parquet(Writer already finalized))"]
    ELSE IF ok THEN [w |-> [w EXCEPT !.file = "closed"], result |-> "Ok(0)"]
    ELSE [w |-> [w EXCEPT !.file = "broken"], result |-> "Err(Parquet(io))"]

\* BatchWriter::finalize: the ArrowWriter is taken out of the Option, then
\* closed; close() can fail, and the writer is gone either way.
BatchWriter_finalize(w, ok) ==
    IF w.writer = "None"
    THEN [w |-> w, result |-> "Err(Parquet(Writer already finalized))"]
    ELSE IF ok THEN [w |-> [w EXCEPT !.writer = "None", !.file = "closed"], result |-> "Ok(0)"]
    ELSE [w |-> [w EXCEPT !.writer = "None", !.file = "broken"], result |-> "Err(Parquet(io))"]

\* Writer::finalize: the _Dummy writer returns Ok(0) on every call.
Writer_finalize(w, ok) ==
    IF w.kind = "_Dummy" THEN [w |-> w, result |-> "Ok(0)"]
    ELSE BatchWriter_finalize(w, ok)

\* A caller creates a Writer.
WriterNew(file_type, ok) ==
    /\ wr.kind = "none"
    /\ wr' = Writer_new(file_type, ok)
    /\ UNCHANGED <<engine_vars, fn_in, fn_out, wr_log>>

\* A caller adds a batch; the log keeps the result and the rows in the file.
WriterAddBatch(ok) ==
    /\ wr.kind \in {"Parquet", "_Dummy"}
    /\ Len(wr_log) < MaxWriterCalls
    /\ LET r == Writer_add_batch(wr, ok)
       IN  /\ wr' = r.w
           /\ wr_log' = Append(wr_log, [op |-> "add_batch", result |-> r.result,
                                        rows_before |-> wr.rows, rows |-> r.w.rows])
    /\ UNCHANGED <<engine_vars, fn_in, fn_out>>

\* A caller finalizes the writer.
WriterFinalize(ok) ==
    /\ wr.kind \in {"Parquet", "_Dummy"}
    /\ Len(wr_log) < MaxWriterCalls
    /\ LET r == Writer_finalize(wr, ok)
       IN  /\ wr' = r.w
           /\ wr_log' = Append(wr_log, [op |-> "finalize", result |-> r.result,
                                        rows_before |-> wr.rows, rows |-> r.w.rows])
    /\ UNCHANGED <<engine_vars, fn_in, fn_out>>

NextWriter ==
    \/ \E file_type \in {"Parquet", "_Dummy"}, ok \in BOOLEAN : WriterNew(file_type, ok)
    \/ \E ok \in BOOLEAN : WriterAddBatch(ok)
    \/ \E ok \in BOOLEAN : WriterFinalize(ok)

WriterSpec == Init /\ [][NextWriter]_vars

\* ------------------------------------------------------ library calls
\* Longest byte stream and largest chunk count handed to extract_bitfields.
MaxStreamLen == 4
MaxChunks == 2

\* Byte values of the streams (two bytes of the crate's own test payload).
ByteVals == {202, 92}

Streams == UNION {[1..n -> ByteVals] : n \in 0..MaxStreamLen}

\* Width lists: empty, within the limit of 9, and beyond it.
WidthLists == {<<>>, <<4>>, <<9>>, <<10>>, <<9, 5, 2>>, <<7, 10>>, <<6, 4, 4>>, <<8, 0, 8>>}

\* The calls of extract_bitfields; debug tells a build with debug
\* assertions (and overflow checks) from a release build.
ExtractBitfieldsCalls ==
    [fn : {"extract_bitfields"}, byte_stream : Streams, bitfield_pattern : WidthLists,
     num_chunks : 0..MaxChunks, debug : BOOLEAN]

\* Byte values of header buffers: the bytes of the crate's test header
\* 0x0dc4008219, all zeros and all ones.
HeaderBytes == {0, 13, 25, 130, 196, 255}

\* Buffers for HeMimoControl::from_buf: five bytes, too short, and longer.
HeaderBufs ==
    [1..5 -> HeaderBytes] \cup {<<>>, <<25, 130, 0, 196>>, <<25, 130, 0, 196, 13, 255>>}

FromBufCalls == [fn : {"from_buf"}, buf : HeaderBufs]

\* Bandwidth has the four variants Bw20, Bw40, Bw80, Bw160 (index 0..3).
BandwidthCalls == [fn : {"Bandwidth"}, index : 0..3]

\* u8 arguments of get_angle_bit_sizes.
U8Samples == {0, 1, 2, 3, 255}

AngleBitSizesCalls ==
    [fn : {"get_angle_bit_sizes"}, codebook_info : U8Samples, feedback_type : U8Samples]

\* u8 arguments of get_pattern: the 3-bit header values and beyond.
IndexSamples == 0..7 \cup {255}

GetPatternCalls == [fn : {"get_pattern"}, nr_index : IndexSamples, nc_index : IndexSamples]

\* The control headers by the fields from_he_mimo_ctrl reads, each over the
\* whole range of its bit field.
ControlHeaders ==
    [nr_index : 0..7, nc_index : 0..7, codebook_info : 0..1, feedback_type : 0..3,
     grouping : 0..1, bandwidth : 0..3]

FromHeMimoCtrlCalls == [fn : {"from_he_mimo_ctrl"}, mimo_ctrl : ControlHeaders]

\* Most subcarrier rows of a BfaData handed to to_bfm.
MaxSubcarriers == 2

\* Lengths of the angle rows: the pattern lengths, shorter and longer ones.
RowLens == {0, 1, 2, 4, 6, 10, 12, 13}

\* The BfaData records handed to to_bfm: the u8 metadata fields (the header
\* values and some beyond them) and up to MaxSubcarriers rows.
BfaRecords ==
    [nr_index : 0..4, nc_index : 0..4, codebook_info : 0..2, feedback_type : 0..2,
     row_lens : UNION {[1..n -> RowLens] : n \in 0..MaxSubcarriers}]

ToBfmCalls == [fn : {"to_bfm"}, bfa : BfaRecords]

\* The quantization inside to_bfm: an angle kind, the bit sizes of a valid
\* (codebook_info, feedback_type) row and an angle value of that many bits.
QuantizedCalls ==
    UNION { [fn : {"quantized"}, kind : {kind}, codebook_info : {cb}, feedback_type : {fb},
             angle : 0..(Pow2(IF kind = "Phi"
                              THEN get_angle_bit_sizes(cb, fb).phi_bit
                              ELSE get_angle_bit_sizes(cb, fb).psi_bit) - 1)] :
            kind \in {"Phi", "Psi"}, cb \in 0..1, fb \in 0..1 }

LibCalls ==
    ExtractBitfieldsCalls \cup FromBufCalls \cup BandwidthCalls \cup AngleBitSizesCalls
        \cup GetPatternCalls \cup FromHeMimoCtrlCalls \cup ToBfmCalls \cup QuantizedCalls

InitLib ==
    /\ InitEngine
    /\ wr = [kind |-> "none"]
    /\ wr_log = <<>>
    /\ fn_in \in LibCalls
    /\ fn_out = [tag |-> "none"]

CallExtractBitfields ==
    /\ fn_in.fn = "extract_bitfields"
    /\ fn_out.tag = "none"
    /\ fn_out' = extract_bitfields(fn_in.byte_stream, fn_in.bitfield_pattern,
                                   fn_in.num_chunks, fn_in.debug)
    /\ UNCHANGED <<engine_vars, fn_in, wr, wr_log>>

CallFromBuf ==
    /\ fn_in.fn = "from_buf"
    /\ fn_out.tag = "none"
    /\ fn_out' = LET r == from_buf(fn_in.buf)
                 IN  IF r.tag = "Ok" THEN [tag |-> "Ok", ctrl |-> HeMimoControl(r.value)]
                     ELSE r
    /\ UNCHANGED <<engine_vars, fn_in, wr, wr_log>>

CallBandwidth ==
    /\ fn_in.fn = "Bandwidth"
    /\ fn_out.tag = "none"
    /\ fn_out' = [tag |-> "Done", mhz |-> to_mhz(fn_in.index), hz |-> to_hz(fn_in.index)]
    /\ UNCHANGED <<engine_vars, fn_in, wr, wr_log>>

CallGetAngleBitSizes ==
    /\ fn_in.fn = "get_angle_bit_sizes"
    /\ fn_out.tag = "none"
    /\ fn_out' = get_angle_bit_sizes(fn_in.codebook_info, fn_in.feedback_type)
    /\ UNCHANGED <<engine_vars, fn_in, wr, wr_log>>

CallGetPattern ==
    /\ fn_in.fn = "get_pattern"
    /\ fn_out.tag = "none"
    /\ fn_out' = get_pattern(fn_in.nr_index, fn_in.nc_index)
    /\ UNCHANGED <<engine_vars, fn_in, wr, wr_log>>

CallFromHeMimoCtrl ==
    /\ fn_in.fn = "from_he_mimo_ctrl"
    /\ fn_out.tag = "none"
    /\ fn_out' = from_he_mimo_ctrl(fn_in.mimo_ctrl)
    /\ UNCHANGED <<engine_vars, fn_in, wr, wr_log>>

CallToBfm ==
    /\ fn_in.fn = "to_bfm"
    /\ fn_out.tag = "none"
    /\ fn_out' = to_bfm(fn_in.bfa)
    /\ UNCHANGED <<engine_vars, fn_in, wr, wr_log>>

CallQuantized ==
    /\ fn_in.fn = "quantized"
    /\ fn_out.tag = "none"
    /\ fn_out' = [tag |-> "Done",
                  value |-> quantized(fn_in.kind, fn_in.angle,
                                get_angle_bit_sizes(fn_in.codebook_info, fn_in.feedback_type))]
    /\ UNCHANGED <<engine_vars, fn_in, wr, wr_log>>

NextLib ==
    \/ CallExtractBitfields
    \/ CallFromBuf
    \/ CallBandwidth
    \/ CallGetAngleBitSizes
    \/ CallGetPattern
    \/ CallFromHeMimoCtrl
    \/ CallToBfm
    \/ CallQuantized

LibSpec == InitLib /\ [][NextLib]_vars

\* --------------------------------------------------- offline pipeline
\* Most frames in the capture file handed to run_offline_capture.
MaxFileFrames == 3

CaptureFiles == UNION {[1..n -> FrameKinds] : n \in 0..MaxFileFrames}

NoFile == [created |-> FALSE, rows |-> <<>>, finalized |-> FALSE]

\* run_offline_capture(args): the capture file and the outputs asked for;
\* the run starts inside extract_from_pcap with nothing read.
InitOffline ==
    /\ InitEngine
    /\ wr = [kind |-> "none"]
    /\ wr_log = <<>>
    /\ fn_in \in [fn : {"run_offline_capture"}, pcap_in : CaptureFiles,
                  bfa_out : BOOLEAN, bfm_out : BOOLEAN]
    /\ fn_out = [tag |-> "extract_from_pcap", pos |-> 0, extracted_data |-> <<>>,
                 bfa_file |-> NoFile, bfm_file |-> NoFile, fault |-> "none"]

\* extract_from_pcap, one iteration on a packet: the record is pushed, an
\* error value is logged and the frame dropped, a panic ends the run.
extract_from_pcap_step(st, packet) ==
    LET r == extract_from_packet(packet)
    IN  CASE r.tag = "Ok"    -> [st EXCEPT !.pos = @ + 1,
                                           !.extracted_data = Append(@, st.pos + 1)]
          [] r.tag = "Err"   -> [st EXCEPT !.pos = @ + 1]
          [] r.tag = "Panic" -> [st EXCEPT !.pos = @ + 1, !.tag = "panicked", !.fault = r.err]

OfflineNextPacket ==
    /\ fn_in.fn = "run_offline_capture"
    /\ fn_out.tag = "extract_from_pcap"
    /\ fn_out.pos < Len(fn_in.pcap_in)
    /\ fn_out' = extract_from_pcap_step(fn_out, fn_in.pcap_in[fn_out.pos + 1])
    /\ UNCHANGED <<engine_vars, fn_in, wr, wr_log>>

\* extract_from_pcap: next_packet fails at the end of the file; break.
OfflineEof ==
    /\ fn_in.fn = "run_offline_capture"
    /\ fn_out.tag = "extract_from_pcap"
    /\ fn_out.pos = Len(fn_in.pcap_in)
    /\ fn_out' = [fn_out EXCEPT !.tag = "bfa_out"]
    /\ UNCHANGED <<engine_vars, fn_in, wr, wr_log>>

\* The steps Writer::new, add_batch and finalize, each unwrapped: the first
\* that fails (new_ok, add_ok, fin_ok tell which succeed) panics and leaves
\* the file as it is then.
write_all(rows, new_ok, add_ok, fin_ok) ==
    IF ~new_ok THEN [file |-> NoFile, result |-> "Panic"]
    ELSE IF ~add_ok THEN [file |-> [created |-> TRUE, rows |-> <<>>, finalized |-> FALSE],
                          result |-> "Panic"]
    ELSE IF ~fin_ok THEN [file |-> [created |-> TRUE, rows |-> rows, finalized |-> FALSE],
                          result |-> "Panic"]
    ELSE [file |-> [created |-> TRUE, rows |-> rows, finalized |-> TRUE], result |-> "Ok"]

\* run_offline_capture, `if let Some(file) = args.bfa_out`.
OfflineWriteBfa(new_ok, add_ok, fin_ok) ==
    /\ fn_in.fn = "run_offline_capture"
    /\ fn_out.tag = "bfa_out"
    /\ fn_out' =
          IF ~fn_in.bfa_out THEN [fn_out EXCEPT !.tag = "bfm_out"]
          ELSE LET w == write_all(fn_out.extracted_data, new_ok, add_ok, fin_ok)
               IN  IF w.result = "Ok"
                   THEN [fn_out EXCEPT !.tag = "bfm_out", !.bfa_file = w.file]
                   ELSE [fn_out EXCEPT !.tag = "panicked", !.bfa_file = w.file,
                                       !.fault = "Writer"]
    /\ UNCHANGED <<engine_vars, fn_in, wr, wr_log>>

\* run_offline_capture, `if let Some(file) = args.bfm_out`: the Writer is
\* created, then every record is converted (`.expect`), then the batch is
\* written and the writer finalized.
OfflineWriteBfm(new_ok, add_ok, fin_ok) ==
    /\ fn_in.fn = "run_offline_capture"
    /\ fn_out.tag = "bfm_out"
    /\ fn_out' =
          IF ~fn_in.bfm_out THEN [fn_out EXCEPT !.tag = "done"]
          ELSE IF ~new_ok THEN [fn_out EXCEPT !.tag = "panicked", !.fault = "Writer"]
          ELSE LET failed == {k \in DOMAIN fn_out.extracted_data :
                                to_bfm(bfa_of_packet(
                                    fn_in.pcap_in[fn_out.extracted_data[k]])).tag # "Ok"}
               IN  IF failed # {}
                   THEN [fn_out EXCEPT !.tag = "panicked", !.fault = "to_bfm",
                             !.bfm_file = [created |-> TRUE, rows |-> <<>>,
                                           finalized |-> FALSE]]
                   ELSE LET w == write_all(fn_out.extracted_data, TRUE, add_ok, fin_ok)
                        IN  IF w.result = "Ok"
                            THEN [fn_out EXCEPT !.tag = "done", !.bfm_file = w.file]
                            ELSE [fn_out EXCEPT !.tag = "panicked", !.bfm_file = w.file,
                                                !.fault = "Writer"]
    /\ UNCHANGED <<engine_vars, fn_in, wr, wr_log>>

NextOffline ==
    \/ OfflineNextPacket
    \/ OfflineEof
    \/ \E new_ok, add_ok, fin_ok \in BOOLEAN : OfflineWriteBfa(new_ok, add_ok, fin_ok)
    \/ \E new_ok, add_ok, fin_ok \in BOOLEAN : OfflineWriteBfm(new_ok, add_ok, fin_ok)

OfflineSpec == InitOffline /\ [][NextOffline]_vars

\* ------------------------------------------------------------ helpers
RECURSIVE IsSubseq(_, _)
IsSubseq(a, b) ==
    IF a = <<>> THEN TRUE
    ELSE IF b = <<>> THEN FALSE
    ELSE IF Head(a) = Head(b) THEN IsSubseq(Tail(a), Tail(b))
    ELSE IsSubseq(a, Tail(b))

\* The records passed to add_batch so far, in call order.
Written(ch) == Flatten([k \in DOMAIN ch.batches |-> ch.batches[k].data])

\* The records a sink has taken from its channel, in order.
Delivered(ch) == IF ch.file THEN Written(ch) \o ch.packet_buffer ELSE ch.recvd

FileChans == {c \in ChanIds : chans[c].file}

\* The capture thread was started with File sinks for nectar and honey.
RanWithBothFileSinks ==
    /\ hpc # "none"
    /\ h.nectar_sink # 0 /\ chans[h.nectar_sink].file
    /\ h.honey_sink # 0 /\ chans[h.honey_sink].file

\* -------------------------------------------------------------- claims
\* C1: when stop() returns after a run started with File sinks for nectar
\* and honey, the capture thread and both writer workers have terminated.
C1_StopTerminatesAllThreads ==
    (mpc = "stopped" /\ RanWithBothFileSinks) =>
        /\ hpc \in {"done", "panicked"}
        /\ WorkerTerminated(h.nectar_sink)
        /\ WorkerTerminated(h.honey_sink)

\* C2: a writer worker that exits gracefully (its channel closed, no write
\* failed) has finalized its Writer.
C2_WorkerFinalizesWriter ==
    \A c \in FileChans :
        (chans[c].wpc = "done" /\ chans[c].fault = "none") => chans[c].writer = "finalized"

\* C3: after start_harvesting() followed by stop(), a further
\* start_harvesting() does not fail. (The capture is gone and the join handle
\* was taken by stop exactly when a start was followed by a stop.)
C3_RestartAfterStop ==
    ~(panic_site = "start_harvesting" /\ ~bee.cap /\ ~bee.harvester /\ stops >= 1)

\* C4: an InsufficientBitsize failure of the bit extraction does not
\* terminate the capture thread.
C4_InsufficientBitsizeNotFatal ==
    ~(hpc = "panicked" /\ h_panic = "InsufficientBitsize")

C7_ThresholdBatchIsBatchSize ==
    \A c \in FileChans : \A k \in DOMAIN chans[c].batches :
        chans[c].batches[k].path = "threshold" =>
            Len(chans[c].batches[k].data) = BATCH_SIZE

C9_DoubleSubscribePanics ==
    [][ /\ (bee.nectar_sink # 0 /\ \E sink \in {"File", "Queue"} : subscribe_for_nectar(sink))
            => (mpc' = "panicked" /\ chans' = chans /\ bee' = bee)
        /\ (bee.honey_sink # 0 /\ \E sink \in {"File", "Queue"} : subscribe_for_honey(sink))
            => (mpc' = "panicked" /\ chans' = chans /\ bee' = bee)
        /\ (bee.pollen_sink /\ subscribe_for_pollen)
            => (mpc' = "panicked" /\ chans' = chans /\ bee' = bee) ]_vars

\* C9 witness: subscribe_for_nectar has panicked on an engine that holds a
\* File nectar sink, whose writer is the only one.
C9_Witness ==
    /\ mpc = "panicked" /\ panic_site = "subscribe_for_nectar"
    /\ bee.nectar_sink # 0 /\ bee.bfa_file_writer = bee.nectar_sink
    /\ Len(chans) = 1

\* C10: between calls, at most one writer worker of each kind is live and
\* the engine holds the join handle of every live writer worker.
C10_OneWriterPerKind ==
    mpc \in {"idle", "stopped"} =>
        /\ \A kind \in {"bfa", "bfm"} :
               Cardinality({c \in FileChans : chans[c].kind = kind /\ WorkerLive(c)}) <= 1
        /\ \A c \in FileChans :
               WorkerLive(c) =>
                   IF chans[c].kind = "bfa" THEN bee.bfa_file_writer = c
                   ELSE bee.bfm_file_writer = c
        /\ (hpc = "running") => bee.harvester

\* C11: a failure inside a writer worker (Writer::new fails, or add_batch
\* returns an error) ends that worker only. No step of a worker touches the
\* capture thread or the savefile; once a worker has failed, every offer to
\* its channel yields Disconnected, and the capture thread goes on from that
\* offer to the next sink or the next packet.
C11_WriterFailureNotFatal ==
    [][ /\ Workers => UNCHANGED <<hpc, hloc, cur, nread, decoded, h_panic, pollen_file>>
        /\ \A c \in FileChans :
              chans[c].fault # "none" =>
                 /\ WorkerTerminated(c)
                 /\ try_send_result(chans[c]) = "Disconnected"
                 /\ (HarvestHoney /\ h.honey_sink = c /\ to_bfm(bfa_of_packet(cur.frame)).tag = "Ok") =>
                        /\ chans'[c].last_try = "Disconnected"
                        /\ hpc' = "running" /\ hloc' = "nectar"
                 /\ (HarvestNectar /\ h.nectar_sink = c) =>
                        /\ chans'[c].last_try = "Disconnected"
                        /\ hpc' = "running" /\ hloc' = "top"
                 /\ \A d \in ChanIds \ {c} :
                        (chans'[c] # chans[c]) => (chans'[d] = chans[d]) ]_vars

\* C11 witness: the nectar writer failed to create its Writer, an offer to
\* it was answered with Disconnected, and the capture thread has since read
\* the second frame, written both frames to the savefile and delivered a
\* record to the honey sink.
C11_Witness ==
    /\ hpc = "running" /\ nread = 2 /\ pollen_file = <<1, 2>>
    /\ h.nectar_sink # 0 /\ h.honey_sink # 0
    /\ chans[h.nectar_sink].fault = "create"
    /\ chans[h.nectar_sink].last_try = "Disconnected"
    /\ chans[h.honey_sink].sent # <<>>

\* C12: for a frame whose header is rejected with InvalidAntennaConfig or
\* InvalidFeedbackType, extract_from_packet returns that error as a value;
\* the capture loop offers nothing to the nectar or honey channel, records
\* no decoded packet and is back at the top of its loop, still running.
C12_HeaderErrorSkipsFrame ==
    [][ \A packet \in FrameKinds :
          ( /\ HarvestPacket(packet)
            /\ h.honey_sink # 0 \/ h.nectar_sink # 0 \/ h.print
            /\ from_he_mimo_ctrl(packet).tag \in {"InvalidAntennaConfig", "InvalidFeedbackType"} )
          => /\ extract_from_packet(packet) =
                    [tag |-> "Err", err |-> from_he_mimo_ctrl(packet).tag]
             /\ chans' = chans /\ decoded' = decoded
             /\ nread' = nread + 1
             /\ hpc' = "running" /\ hloc' = "top" ]_vars

\* C12 witness: the first frame was skipped while a nectar sink was active
\* and the thread kept running; the second frame was decoded and delivered.
C12_Witness ==
    /\ hpc = "running" /\ nread = 2 /\ decoded = <<2>>
    /\ h.nectar_sink # 0
    /\ chans[h.nectar_sink].sent = <<2>>

\* Positions of the finalize calls in the log of a Writer.
FinalizeCalls == {i \in DOMAIN wr_log : wr_log[i].op = "finalize"}

\* C13 as stated: the first finalize() on an open writer succeeds and
\* closes the file, every later finalize() fails with the already-finalized
\* error, and every add_batch after a finalize() fails and writes nothing.
C13_WriterLifecycle ==
    \A i \in DOMAIN wr_log :
        LET later == \E k \in FinalizeCalls : k < i
        IN  /\ (wr_log[i].op = "finalize" /\ ~later) => wr_log[i].result = "Ok(0)"
            /\ (wr_log[i].op = "finalize" /\ later) =>
                   wr_log[i].result = "Err(Parquet(Writer already finalized))"
            /\ (wr_log[i].op = "add_batch" /\ later) =>
                   /\ wr_log[i].result # "Ok"
                   /\ wr_log[i].rows = wr_log[i].rows_before
            /\ (FinalizeCalls # {} /\ i = Len(wr_log)) => wr.file = "closed"

\* C13 amended: on a Parquet writer the first finalize() takes the writer;
\* it succeeds and closes the file unless closing fails with an I/O error.
\* Every later finalize(), also one after a failed first finalize(), fails
\* with the already-finalized error, and every add_batch after a finalize()
\* fails with the finalized error and writes nothing.
C13_ParquetWriterLifecycle ==
    wr.kind = "Parquet" =>
      \A i \in DOMAIN wr_log :
        LET later == \E k \in FinalizeCalls : k < i
        IN  /\ (wr_log[i].op = "finalize" /\ ~later) =>
                   wr_log[i].result \in {"Ok(0)", "Err(Parquet(io))"}
            /\ (wr_log[i].op = "finalize" /\ later) =>
                   wr_log[i].result = "Err(Parquet(Writer already finalized))"
            /\ (wr_log[i].op = "add_batch" /\ later) =>
                   /\ wr_log[i].result = "Err(Parquet(Writer has been finalized))"
                   /\ wr_log[i].rows = wr_log[i].rows_before
            /\ (FinalizeCalls # {} /\ i = Len(wr_log)) =>
                   /\ wr.writer = "None"
                   /\ wr.file = "closed" <=>
                          \E k \in FinalizeCalls : wr_log[k].result = "Ok(0)"

\* C13 witness: a Parquet writer took a batch, was finalized, refused a
\* second finalize() and refused a further batch.
C13_Witness ==
    /\ wr.kind = "Parquet" /\ wr.file = "closed" /\ wr.rows = 1
    /\ Len(wr_log) = 4
    /\ wr_log[1].op = "add_batch" /\ wr_log[1].result = "Ok"
    /\ wr_log[2].op = "finalize" /\ wr_log[2].result = "Ok(0)"
    /\ wr_log[3].op = "finalize" /\ wr_log[3].result # "Ok(0)"
    /\ wr_log[4].op = "add_batch" /\ wr_log[4].result # "Ok"

\* Bit k (from 0) of a byte stream: bytes in order, LSB first in a byte.
BitAt(stream, k) == (stream[(k \div 8) + 1] \div Pow2(k % 8)) % 2

\* The unsigned integer formed by the w stream bits from bit offset start.
RECURSIVE FieldAt(_, _, _)
FieldAt(stream, start, w) ==
    IF w = 0 THEN 0 ELSE BitAt(stream, start) + 2 * FieldAt(stream, start + 1, w - 1)

\* A finished extract_bitfields call within the documented domain: widths
\* of at most 9 bits and enough bits in the stream.
ExtractionInDomain ==
    /\ fn_in.fn = "extract_bitfields" /\ fn_out.tag # "none"
    /\ \A k \in DOMAIN fn_in.bitfield_pattern : fn_in.bitfield_pattern[k] <= 9
    /\ Len(fn_in.byte_stream) * 8 >= fn_in.num_chunks * SumSeq(fn_in.bitfield_pattern)

\* C14: within that domain, streams of length 0 and 1 included,
\* extract_bitfields succeeds with N rows of L values, and value j of row i
\* is the integer formed by the w_j bits from offset i * sum(w) + sum of the
\* widths before j, LSB first.
C14_ExtractBitfieldsValues ==
    ExtractionInDomain =>
        LET w == fn_in.bitfield_pattern
            total == SumSeq(w)
        IN  /\ fn_out.tag = "Ok"
            /\ fn_out.rows =
                  [i \in 1..fn_in.num_chunks |->
                     [j \in 1..Len(w) |->
                        FieldAt(fn_in.byte_stream,
                                (i - 1) * total + SumSeq(SubSeq(w, 1, j - 1)), w[j])]]

\* C15: a finished extract_bitfields call whose width list holds a width
\* above 9 has returned InvalidBitfieldSize, whatever the stream length and
\* the chunk count are.
C15_WidthAboveNineRejected ==
    ( /\ fn_in.fn = "extract_bitfields" /\ fn_out.tag # "none"
      /\ \E k \in DOMAIN fn_in.bitfield_pattern : fn_in.bitfield_pattern[k] > 9 )
    => fn_out.tag = "InvalidBitfieldSize"

\* C16: a finished extract_bitfields call on a stream with fewer than
\* N * sum(widths) bits has returned InsufficientBitsize with
\* required = N * sum(widths) and available = 8 * stream length.
C16_InsufficientBitsizeReturned ==
    ( /\ fn_in.fn = "extract_bitfields" /\ fn_out.tag # "none"
      /\ Len(fn_in.byte_stream) * 8 < fn_in.num_chunks * SumSeq(fn_in.bitfield_pattern) )
    => fn_out = [tag |-> "InsufficientBitsize",
                 required |-> fn_in.num_chunks * SumSeq(fn_in.bitfield_pattern),
                 available |-> Len(fn_in.byte_stream) * 8]

\* The bits of a value of width w, LSB first.
ValueBits(v, w) == [b \in 1..w |-> (v \div Pow2(b - 1)) % 2]

\* The values packed back LSB first with their widths.
RECURSIVE PackBits(_, _)
PackBits(values, widths) ==
    IF widths = <<>> THEN <<>>
    ELSE ValueBits(Head(values), Head(widths)) \o PackBits(Tail(values), Tail(widths))

\* C17: within the documented domain, packing the values returned by
\* extract_bitfields back LSB first with the same widths gives the first
\* N * sum(widths) bits of the stream.
C17_UnpackPackRoundTrip ==
    ExtractionInDomain =>
        LET ws == Repeat(fn_in.bitfield_pattern, fn_in.num_chunks)
        IN  /\ fn_out.tag = "Ok"
            /\ PackBits(Flatten(fn_out.rows), ws) =
                  [k \in 1..SumSeq(ws) |-> BitAt(fn_in.byte_stream, k - 1)]

\* C18: from_buf never fails for a slice of at least 5 bytes, and every
\* field of the result is the bit range of the first 40 bits of the buffer
\* (bytes in order, LSB first) at its offset and width: nc_index 3,
\* nr_index 3, bandwidth 2, grouping 1, codebook_info 1, feedback_type 2,
\* remaining segments 3, first segment 1, ru_start 7, ru_end 7, token 6,
\* reserved 4.
C18_FromBufFields ==
    (fn_in.fn = "from_buf" /\ fn_out.tag # "none" /\ Len(fn_in.buf) >= 5) =>
        /\ fn_out.tag = "Ok"
        /\ fn_out.ctrl =
              [nc_index                    |-> FieldAt(fn_in.buf, 0, 3),
               nr_index                    |-> FieldAt(fn_in.buf, 3, 3),
               bandwidth                   |-> FieldAt(fn_in.buf, 6, 2),
               grouping                    |-> FieldAt(fn_in.buf, 8, 1),
               codebook_info               |-> FieldAt(fn_in.buf, 9, 1),
               feedback_type               |-> FieldAt(fn_in.buf, 10, 2),
               remaining_feedback_segments |-> FieldAt(fn_in.buf, 12, 3),
               first_feedback_segments     |-> FieldAt(fn_in.buf, 15, 1),
               ru_start_index              |-> FieldAt(fn_in.buf, 16, 7),
               ru_end_index                |-> FieldAt(fn_in.buf, 23, 7),
               dialog_token_number         |-> FieldAt(fn_in.buf, 30, 6),
               reserved_padding            |-> FieldAt(fn_in.buf, 36, 4)]

\* C18 witness: the header 0x0dc4008219 of the crate's test was parsed into
\* Nc index 1, Nr index 3, codebook 1, first segment 1, RU end 8, token 55.
C18_Witness ==
    /\ fn_in.fn = "from_buf" /\ fn_in.buf = <<25, 130, 0, 196, 13>>
    /\ fn_out.tag = "Ok"
    /\ fn_out.ctrl.nc_index = 1 /\ fn_out.ctrl.nr_index = 3
    /\ fn_out.ctrl.bandwidth = 0 /\ fn_out.ctrl.grouping = 0
    /\ fn_out.ctrl.codebook_info = 1 /\ fn_out.ctrl.feedback_type = 0
    /\ fn_out.ctrl.remaining_feedback_segments = 0
    /\ fn_out.ctrl.first_feedback_segments = 1
    /\ fn_out.ctrl.ru_start_index = 0 /\ fn_out.ctrl.ru_end_index = 8
    /\ fn_out.ctrl.dialog_token_number = 55 /\ fn_out.ctrl.reserved_padding = 0

\* C19: for each bandwidth index i in 0..3, to_mhz is 20 * 2^i and to_hz is
\* to_mhz * 1,000,000, neither overflowing its result type.
C19_BandwidthConversions ==
    (fn_in.fn = "Bandwidth" /\ fn_out.tag # "none") =>
        /\ fn_out.mhz = [tag |-> "Ok", value |-> 20 * Pow2(fn_in.index)]
        /\ fn_out.hz = [tag |-> "Ok", value |-> 20 * Pow2(fn_in.index) * 1000000]

\* C19 witness: Bw160 was converted to 160 MHz and 160,000,000 Hz.
C19_Witness ==
    /\ fn_in.fn = "Bandwidth" /\ fn_in.index = 3
    /\ fn_out.tag = "Done"
    /\ fn_out.mhz.value = 160 /\ fn_out.hz.value = 160000000

\* C20: get_angle_bit_sizes returns (4,2) for (0,0), (7,5) for (0,1),
\* (6,4) for (1,0), (9,7) for (1,1) and InvalidFeedbackType for every other
\* pair of u8 arguments.
C20_AngleBitSizesTable ==
    (fn_in.fn = "get_angle_bit_sizes" /\ fn_out.tag # "none") =>
        LET arg == <<fn_in.codebook_info, fn_in.feedback_type>>
        IN  /\ arg = <<0, 0>> => fn_out = [tag |-> "Ok", phi_bit |-> 4, psi_bit |-> 2]
            /\ arg = <<0, 1>> => fn_out = [tag |-> "Ok", phi_bit |-> 7, psi_bit |-> 5]
            /\ arg = <<1, 0>> => fn_out = [tag |-> "Ok", phi_bit |-> 6, psi_bit |-> 4]
            /\ arg = <<1, 1>> => fn_out = [tag |-> "Ok", phi_bit |-> 9, psi_bit |-> 7]
            /\ arg \notin {<<0, 0>>, <<0, 1>>, <<1, 0>>, <<1, 1>>} =>
                   fn_out.tag = "InvalidFeedbackType"

\* C20 witness: the pair (codebook_info 2, feedback_type 1) was rejected.
C20_Witness ==
    /\ fn_in.fn = "get_angle_bit_sizes"
    /\ fn_in.codebook_info = 2 /\ fn_in.feedback_type = 1
    /\ fn_out.tag = "InvalidFeedbackType"

\* The angle patterns as the glossary lists them, by antenna configuration.
GlossaryPattern(nr_index, nc_index) ==
    LET p10 == << <<"Phi", 1, 1>>, <<"Psi", 2, 1>> >>
        p20 == << <<"Phi", 1, 1>>, <<"Phi", 2, 1>>, <<"Psi", 2, 1>>, <<"Psi", 3, 1>> >>
        p21 == p20 \o << <<"Phi", 2, 2>>, <<"Psi", 3, 2>> >>
        p30 == << <<"Phi", 1, 1>>, <<"Phi", 2, 1>>, <<"Phi", 3, 1>>,
                  <<"Psi", 2, 1>>, <<"Psi", 3, 1>>, <<"Psi", 4, 1>> >>
        p31 == p30 \o << <<"Phi", 2, 2>>, <<"Phi", 3, 2>>, <<"Psi", 3, 2>>, <<"Psi", 4, 2>> >>
        p32 == p31 \o << <<"Phi", 3, 3>>, <<"Psi", 4, 3>> >>
    IN  CASE <<nr_index, nc_index>> \in {<<1, 0>>, <<1, 2>>} -> p10
          [] <<nr_index, nc_index>> = <<2, 0>> -> p20
          [] <<nr_index, nc_index>> \in {<<2, 1>>, <<2, 2>>} -> p21
          [] <<nr_index, nc_index>> = <<3, 0>> -> p30
          [] <<nr_index, nc_index>> = <<3, 1>> -> p31
          [] <<nr_index, nc_index>> \in {<<3, 2>>, <<3, 3>>} -> p32

\* The nine accepted antenna configurations and their pattern lengths.
AcceptedConfigs ==
    {<<1, 0>>, <<1, 2>>, <<2, 0>>, <<2, 1>>, <<2, 2>>, <<3, 0>>, <<3, 1>>, <<3, 2>>, <<3, 3>>}

PatternLength(nr_index, nc_index) ==
    CASE <<nr_index, nc_index>> \in {<<1, 0>>, <<1, 2>>} -> 2
      [] <<nr_index, nc_index>> = <<2, 0>> -> 4
      [] <<nr_index, nc_index>> \in {<<2, 1>>, <<2, 2>>, <<3, 0>>} -> 6
      [] <<nr_index, nc_index>> = <<3, 1>> -> 10
      [] <<nr_index, nc_index>> \in {<<3, 2>>, <<3, 3>>} -> 12

\* C21: get_pattern returns, for each of the nine accepted (nr_index,
\* nc_index), the glossary's ordered triples with the stated length (2, 4, 6,
\* 6, 10, 12), and InvalidAntennaConfig carrying the given indices for every
\* other pair.
C21_GetPatternTable ==
    (fn_in.fn = "get_pattern" /\ fn_out.tag # "none") =>
        LET arg == <<fn_in.nr_index, fn_in.nc_index>>
        IN  IF arg \in AcceptedConfigs
            THEN /\ fn_out.tag = "Ok"
                 /\ Len(fn_out.pattern) = PatternLength(arg[1], arg[2])
                 /\ fn_out.pattern = GlossaryPattern(arg[1], arg[2])
            ELSE fn_out = [tag |-> "InvalidAntennaConfig",
                           nr_index |-> arg[1], nc_index |-> arg[2]]

\* C21 witness: the configuration (1,2) was given the two-entry pattern.
C21_Witness ==
    /\ fn_in.fn = "get_pattern"
    /\ fn_in.nr_index = 1 /\ fn_in.nc_index = 2
    /\ fn_out.tag = "Ok"
    /\ fn_out.pattern = << <<"Phi", 1, 1>>, <<"Psi", 2, 1>> >>

\* The bit widths (phi_bit, psi_bit) of the four valid (codebook_info,
\* feedback_type) rows.
ValidFeedback == {<<0, 0>>, <<0, 1>>, <<1, 0>>, <<1, 1>>}

BitWidths(codebook_info, feedback_type) ==
    CASE <<codebook_info, feedback_type>> = <<0, 0>> -> <<4, 2>>
      [] <<codebook_info, feedback_type>> = <<0, 1>> -> <<7, 5>>
      [] <<codebook_info, feedback_type>> = <<1, 0>> -> <<6, 4>>
      [] <<codebook_info, feedback_type>> = <<1, 1>> -> <<9, 7>>

\* The subcarrier count by grouping and bandwidth in MHz.
SubcarrierTable(grouping, mhz) ==
    CASE <<grouping, mhz>> = <<0, 20>>  -> 64
      [] <<grouping, mhz>> = <<0, 40>>  -> 122
      [] <<grouping, mhz>> = <<0, 80>>  -> 250
      [] <<grouping, mhz>> = <<0, 160>> -> 500
      [] <<grouping, mhz>> = <<1, 20>>  -> 50
      [] <<grouping, mhz>> = <<1, 40>>  -> 32
      [] <<grouping, mhz>> = <<1, 80>>  -> 64
      [] <<grouping, mhz>> = <<1, 160>> -> 160

\* C22: for every accepted control header from_he_mimo_ctrl succeeds; the
\* bitfield_pattern has the length of the (nr, nc) angle pattern, holds
\* phi_bit at each Phi entry and psi_bit at each Psi entry, and
\* num_subcarrier is the (grouping, bandwidth) table value.
C22_ExtractionConfigOfHeader ==
    ( /\ fn_in.fn = "from_he_mimo_ctrl" /\ fn_out.tag # "none"
      /\ <<fn_in.mimo_ctrl.nr_index, fn_in.mimo_ctrl.nc_index>> \in AcceptedConfigs
      /\ <<fn_in.mimo_ctrl.codebook_info, fn_in.mimo_ctrl.feedback_type>> \in ValidFeedback )
    => LET c == fn_in.mimo_ctrl
           pattern == GlossaryPattern(c.nr_index, c.nc_index)
           bits == BitWidths(c.codebook_info, c.feedback_type)
       IN  /\ fn_out.tag = "Ok"
           /\ Len(fn_out.bitfield_pattern) = PatternLength(c.nr_index, c.nc_index)
           /\ \A k \in DOMAIN pattern :
                 fn_out.bitfield_pattern[k] =
                     IF pattern[k][1] = "Phi" THEN bits[1] ELSE bits[2]
           /\ fn_out.num_subcarrier = SubcarrierTable(c.grouping, 20 * Pow2(c.bandwidth))

\* C22 witness: the 4x2 header of the crate's test (codebook 1, feedback
\* type 0, grouping 0, 20 MHz) gave the widths 6,6,6,4,4,4,6,6,4,4 and 64
\* subcarriers.
C22_Witness ==
    /\ fn_in.fn = "from_he_mimo_ctrl"
    /\ fn_in.mimo_ctrl = [nr_index |-> 3, nc_index |-> 1, codebook_info |-> 1,
                          feedback_type |-> 0, grouping |-> 0, bandwidth |-> 0]
    /\ fn_out = [tag |-> "Ok", bitfield_pattern |-> <<6, 6, 6, 4, 4, 4, 6, 6, 4, 4>>,
                 num_subcarrier |-> 64]

\* A finished to_bfm call on a record whose metadata is accepted and whose
\* angle rows all have the length of the pattern.
ToBfmInDomain ==
    /\ fn_in.fn = "to_bfm" /\ fn_out.tag # "none"
    /\ <<fn_in.bfa.nr_index, fn_in.bfa.nc_index>> \in AcceptedConfigs
    /\ <<fn_in.bfa.codebook_info, fn_in.bfa.feedback_type>> \in ValidFeedback
    /\ \A sub_idx \in DOMAIN fn_in.bfa.row_lens :
          fn_in.bfa.row_lens[sub_idx] = PatternLength(fn_in.bfa.nr_index, fn_in.bfa.nc_index)

\* C23: every such call, the configuration (1,2) included, succeeds with a
\* matrix of shape (nr_index + 1, nc_index + 1, Sub) that holds, for each
\* subcarrier, nr_index + 1 rows of nc_index + 1 entries.
C23_ToBfmShape ==
    ToBfmInDomain =>
        /\ fn_out.tag = "Ok"
        /\ fn_out.shape = <<fn_in.bfa.nr_index + 1, fn_in.bfa.nc_index + 1,
                            Len(fn_in.bfa.row_lens)>>
        /\ \A sub_idx \in DOMAIN fn_out.feedback_matrix :
              /\ DOMAIN fn_out.feedback_matrix[sub_idx] = 1..(fn_in.bfa.nr_index + 1)
              /\ \A r \in DOMAIN fn_out.feedback_matrix[sub_idx] :
                    DOMAIN fn_out.feedback_matrix[sub_idx][r] = 1..(fn_in.bfa.nc_index + 1)

\* C24: a finished to_bfm call on a record whose (nr_index, nc_index) is
\* outside the accepted set or whose (codebook_info, feedback_type) is
\* outside the four valid rows has returned an error value,
\* InvalidAntennaConfig in the first case and InvalidFeedbackType otherwise,
\* and no matrix, whatever the angle rows are.
C24_ToBfmRejectsMetadata ==
    ( /\ fn_in.fn = "to_bfm" /\ fn_out.tag # "none"
      /\ \/ <<fn_in.bfa.nr_index, fn_in.bfa.nc_index>> \notin AcceptedConfigs
         \/ <<fn_in.bfa.codebook_info, fn_in.bfa.feedback_type>> \notin ValidFeedback )
    => /\ fn_out.tag = "Err"
       /\ fn_out.err =
             IF <<fn_in.bfa.nr_index, fn_in.bfa.nc_index>> \notin AcceptedConfigs
             THEN "InvalidAntennaConfig" ELSE "InvalidFeedbackType"
       /\ "feedback_matrix" \notin DOMAIN fn_out

\* C24 witness: a 2x1 record with feedback type 2 and one full angle row
\* was rejected with InvalidFeedbackType.
C24_Witness ==
    /\ fn_in.fn = "to_bfm"
    /\ fn_in.bfa = [nr_index |-> 1, nc_index |-> 0, codebook_info |-> 0,
                    feedback_type |-> 2, row_lens |-> <<2>>]
    /\ fn_out = [tag |-> "Err", err |-> "InvalidFeedbackType"]

\* The width w of a finished quantization and its result in units of
\* pi / 2^e.
QuantizedWidth ==
    LET bits == BitWidths(fn_in.codebook_info, fn_in.feedback_type)
    IN  IF fn_in.kind = "Phi" THEN bits[1] ELSE bits[2]

InUnits(a, e) == a.num * Pow2(e - a.exp)

\* C25 as stated: for every width w and quantized integer q below 2^w, Phi
\* lies in [pi/2^w, pi - pi/2^w] (1 to 2^w - 1 units of pi/2^w) and Psi in
\* [pi/2^(w+2), pi/2 - pi/2^(w+2)] (1 to 2^(w+1) - 1 units of pi/2^(w+2)).
C25_QuantizationRange ==
    (fn_in.fn = "quantized" /\ fn_out.tag # "none") =>
        LET w == QuantizedWidth
        IN  IF fn_in.kind = "Phi"
            THEN /\ fn_out.value.exp <= w
                 /\ 1 <= InUnits(fn_out.value, w)
                 /\ InUnits(fn_out.value, w) <= Pow2(w) - 1
            ELSE /\ fn_out.value.exp <= w + 2
                 /\ 1 <= InUnits(fn_out.value, w + 2)
                 /\ InUnits(fn_out.value, w + 2) <= Pow2(w + 1) - 1

\* C25 amended: Phi is q * pi/2^(w-1) + pi/2^w and lies in
\* [pi/2^w, 2 pi - pi/2^w] (1 to 2^(w+1) - 1 units of pi/2^w); Psi is
\* q * pi/2^(w+1) + pi/2^(w+2) and lies in [pi/2^(w+2), pi/2 - pi/2^(w+2)].
C25_QuantizationRangeTwoPi ==
    (fn_in.fn = "quantized" /\ fn_out.tag # "none") =>
        LET w == QuantizedWidth
        IN  IF fn_in.kind = "Phi"
            THEN /\ fn_out.value.exp <= w
                 /\ InUnits(fn_out.value, w) = 2 * fn_in.angle + 1
                 /\ 1 <= InUnits(fn_out.value, w)
                 /\ InUnits(fn_out.value, w) <= Pow2(w + 1) - 1
            ELSE /\ fn_out.value.exp <= w + 2
                 /\ InUnits(fn_out.value, w + 2) = 2 * fn_in.angle + 1
                 /\ 1 <= InUnits(fn_out.value, w + 2)
                 /\ InUnits(fn_out.value, w + 2) <= Pow2(w + 1) - 1

\* C25 witness: the largest 6-bit Phi value, 63, was quantized to 127 units
\* of pi/64, the upper end of the range.
C25_Witness ==
    /\ fn_in.fn = "quantized" /\ fn_in.kind = "Phi"
    /\ fn_in.codebook_info = 1 /\ fn_in.feedback_type = 0 /\ fn_in.angle = 63
    /\ fn_out.tag = "Done"
    /\ fn_out.value = [num |-> 127, exp |-> 6]

\* The positions of the frames of a file whose dissection succeeds.
RECURSIVE Dissected(_, _)
Dissected(file, k) ==
    IF k > Len(file) THEN <<>>
    ELSE IF extract_from_packet(file[k]).tag = "Ok" THEN <<k>> \o Dissected(file, k + 1)
    ELSE Dissected(file, k + 1)

\* An offline run has ended (returned or panicked) and no call on a Writer
\* failed.
OfflineEndedNoWriterFault ==
    /\ fn_in.fn = "run_offline_capture"
    /\ fn_out.tag \in {"done", "panicked"}
    /\ fn_out.fault # "Writer"

\* C26: for a capture file whose frames all return from dissection (no
\* dissector panic), extract_from_pcap reads to the end of the file and
\* returns the successfully dissected frames in file order, skipping the
\* others; with both outputs asked for, the run ends with a BFA file and a
\* BFM file that each hold one record per dissected frame in file order, so
\* K records each when all K frames dissect.
C26_OfflinePipeline ==
    ( /\ OfflineEndedNoWriterFault
      /\ \A k \in DOMAIN fn_in.pcap_in : extract_from_packet(fn_in.pcap_in[k]).tag # "Panic" )
    => /\ fn_out.pos = Len(fn_in.pcap_in)
       /\ fn_out.extracted_data = Dissected(fn_in.pcap_in, 1)
       /\ (fn_in.bfa_out /\ fn_in.bfm_out) =>
             /\ fn_out.tag = "done"
             /\ fn_out.bfa_file.rows = Dissected(fn_in.pcap_in, 1)
             /\ fn_out.bfm_file.rows = Dissected(fn_in.pcap_in, 1)
             /\ fn_out.bfa_file.finalized /\ fn_out.bfm_file.finalized

\* stop() has been called and has not returned.
InStop == mpc \in {"stop_join_harvester", "stop_join_bfa"}

\* stop() is in its join of the BFA writer while that writer has not ended
\* and the only sender of its channel is the one in the engine's nectar slot.
StopWaitsOnHeldSender ==
    /\ mpc = "stop_join_bfa"
    /\ bee.bfa_file_writer # 0
    /\ ~WorkerTerminated(bee.bfa_file_writer)
    /\ bee.nectar_sink = bee.bfa_file_writer
    /\ ~(hpc = "running" /\ h.nectar_sink = bee.bfa_file_writer)

\* C27: a call of stop() returns from every reachable state: while stop()
\* has not returned some thread can take a step (the call is never left in
\* a state in which nothing can happen any more), and stop() never waits on
\* a writer worker whose only sender is still held by the engine.
C27_StopReturns ==
    /\ InStop => ENABLED Next
    /\ ~StopWaitsOnHeldSender

C29_NectarIndependentOfHoney ==
    [][ /\ \A packet \in FrameKinds :
              (HarvestPacket(packet) /\ extract_from_packet(packet).tag = "Ok"
                  /\ (h.honey_sink # 0 \/ h.nectar_sink # 0 \/ h.print))
              => (hloc' = "honey" /\ chans' = chans)
        /\ (HarvestHoney /\ h.nectar_sink # 0) =>
              /\ hpc' = "running" /\ hloc' = "nectar" /\ cur' = cur
              /\ \A c \in ChanIds \ {h.honey_sink} : chans'[c] = chans[c]
        /\ (HarvestNectar /\ h.nectar_sink # 0) =>
              /\ chans'[h.nectar_sink] = try_send(chans[h.nectar_sink], cur.id)
              /\ hloc' = "top" ]_vars

\* The accumulator of to_bfm after the first k factors of a pattern.
AccAfter(pattern, k, num_receive) ==
    fold_pattern(SubSeq(pattern, 1, k), 1, k, eye(num_receive)).acc

\* C30: for every accepted antenna configuration, whatever the angle
\* values: starting from the identity, each Phi factor scales a column whose
\* last-row entry is zero at that point, each Givens factor mixes two
\* last-row entries whose imaginary part is zero, the last row of the
\* accumulator is real after every factor, and the last row (row Nr - 1) of
\* every subcarrier of a returned matrix has imaginary part zero in every
\* column.
C30_LastRowReal ==
    ToBfmInDomain =>
        LET pattern == get_pattern(fn_in.bfa.nr_index, fn_in.bfa.nc_index).pattern
            n == fn_in.bfa.nr_index + 1
        IN  /\ \A k \in DOMAIN pattern :
                  LET before == AccAfter(pattern, k - 1, n)
                      after  == AccAfter(pattern, k, n)
                  IN  /\ pattern[k][1] = "Phi" => before[n][pattern[k][2]] = "Z"
                      /\ pattern[k][1] = "Psi" =>
                            /\ before[n][pattern[k][2]] \in {"Z", "R"}
                            /\ before[n][pattern[k][3]] \in {"Z", "R"}
                      /\ \A c \in 1..n : after[n][c] \in {"Z", "R"}
            /\ fn_out.tag = "Ok" =>
                  \A sub_idx \in DOMAIN fn_out.feedback_matrix :
                      \A c \in DOMAIN fn_out.feedback_matrix[sub_idx][n] :
                          fn_out.feedback_matrix[sub_idx][n][c] \in {"Z", "R"}

\* C30 witness: the 4x2 record of the crate's test (codebook 1, feedback
\* type 0, rows of 10 angles) was converted; the last row of each subcarrier
\* is real and the rows above it are complex.
C30_Witness ==
    /\ fn_in.fn = "to_bfm"
    /\ fn_in.bfa = [nr_index |-> 3, nc_index |-> 1, codebook_info |-> 1,
                    feedback_type |-> 0, row_lens |-> <<10, 10>>]
    /\ fn_out.tag = "Ok" /\ fn_out.shape = <<4, 2, 2>>
    /\ fn_out.feedback_matrix[2][4] = <<"R", "R">>
    /\ \A r \in 1..3 : \E c \in 1..2 : fn_out.feedback_matrix[2][r][c] = "C"

====
